---- MODULE Spec2Model ----
(***************************************************************************)
(* Model of BulkUpdateMixin (src/core/mixins.py): bulk_update, the         *)
(* set-based chunk statement of _execute_batch_update and the row-level    *)
(* retry of _fallback_row_by_row, run against a table with one unique      *)
(* column (name) and one plain column (qty) behind a session that commits  *)
(* and rolls back; of UniversalSearchService (src/core/services/           *)
(* search_service.py); of WorkspaceRepository (src/auth/repository.py);    *)
(* of create_user (src/core/services/superuser.py); of BaseAPIClient       *)
(* (src/api_client.py) and of CacheManager (src/core/redis_client.py).     *)
(***************************************************************************)
EXTENDS Integers, Sequences, FiniteSets, TLC

VARIABLES
    payload,        \* Sequence[UpdateSchemaT]: the rows handed to bulk_update
    update_fields,  \* the update_fields argument (UNSET models None)
    include_none,   \* the include_none argument
    has_id,         \* whether the update schema declares an id field
    has_ws,         \* "workspace_id" in table.c
    initial,        \* the table as stored when bulk_update is called
    run,            \* the call in progress: session, locals, position
    twin,           \* the same call against the table without row ForeignId
    store,          \* how the store resolves its free choices in both worlds
    group_fields,   \* chunk arithmetic: number of written fields of a group
    group_rows,     \* chunk arithmetic: number of rows of the group
    chunk_sizes,    \* chunk arithmetic: sizes of the chunks batched() yields
    config,         \* the SearchConfig of the UniversalSearchService
    request,        \* the request_body and workspace_id handed to search
    found,          \* the search call: what it executed and what it gave back
    pages,          \* the responses a client collected page after page
    auth,           \* the auth schema (users, workspaces, memberships) and the calls on it
    client,         \* a BaseAPIClient: its semaphore and the fetch calls in progress
    cache           \* the CacheManager: its Redis client and the calls in progress

vars == <<payload, update_fields, include_none, has_id, has_ws, initial, run,
          twin, store, group_fields, group_rows, chunk_sizes,
          config, request, found, pages, auth, client, cache>>

----------------------------------------------------------------------------
(* Bounds and fixtures *)

MaxPayload == 3

_MAX_QUERY_PARAMS == 20000

None == "None"
UNSET == {"<unset>"}
Fields == {"name", "qty"}
Ids == {1, 2, 3}
NameValues == {None, "c", "d"}
QtyValues == {None, "5"}

\* self.workspace_id of the repository issuing the call
workspace_id == 1

NoFilter == 0
Absent == [ws |-> 0, name |-> None, qty |-> None]

\* A table with a workspace_id column: rows 1 and 2 belong to the caller's
\* workspace, row 3 to another one.  name is UNIQUE, table-wide.
TenantTable ==
    (1 :> [ws |-> 1, name |-> "a", qty |-> "1"]) @@
    (2 :> [ws |-> 1, name |-> "b", qty |-> "1"]) @@
    (3 :> [ws |-> 2, name |-> "c", qty |-> "1"])

\* the row of TenantTable that another workspace owns
ForeignId == CHOOSE id \in Ids : TenantTable[id].ws # workspace_id

\* The same table with row 3 never inserted.
TenantTableWithout3 == [TenantTable EXCEPT ![ForeignId] = Absent]

\* A table without workspace_id column (every row carries ws = 1 as a
\* placeholder that no statement reads); id 3 is not stored.
PlainTable == TenantTableWithout3

PayloadRows == [id : Ids, name : NameValues, qty : QtyValues]

RECURSIVE SeqsUpTo(_, _)
SeqsUpTo(S, n) ==
    IF n = 0 THEN {<<>>}
    ELSE LET shorter == SeqsUpTo(S, n - 1)
         IN  shorter \cup {Append(s, x) : s \in {t \in shorter : Len(t) = n - 1}, x \in S}

Range(s) == {s[i] : i \in DOMAIN s}

RECURSIVE Perms(_)
Perms(S) ==
    IF S = {} THEN {<<>>}
    ELSE UNION {{<<x>> \o p : p \in Perms(S \ {x})} : x \in S}

RECURSIVE SortedSeq(_)
\* ascending sequence of a set of integers
SortedSeq(S) ==
    IF S = {} THEN <<>>
    ELSE LET m == CHOOSE x \in S : \A y \in S : x <= y
         IN  <<m>> \o SortedSeq(S \ {m})

----------------------------------------------------------------------------
(* bulk_update, steps 1-3: normalise, group, split *)

\* Cand without the null policy: every candidate field is written
CandIgnoringNone(item, uf, inc) ==
    IF uf = UNSET THEN Fields ELSE uf

\* mixins.py 118-129: the keys of cand
Cand(item, uf, inc) ==
    IF uf = UNSET
    THEN {k \in Fields : item[k] # None \/ inc}
    ELSE {k \in uf : item[k] # None \/ inc}

\* row.get(c) on a normalised row
Get(row, c) == IF c \in DOMAIN row.vals THEN row.vals[c] ELSE None

\* mixins.py 110-136: one normalised row per payload item; cols = {} is the
\* "__empty" marker.  ix is the item's position in the payload.
Normalised(pl, uf, inc) ==
    [i \in 1..Len(pl) |->
        LET cand == Cand(pl[i], uf, inc)
        IN  [ix |-> i, id |-> pl[i].id, cols |-> cand,
             vals |-> [k \in cand |-> pl[i][k]]]]

RECURSIVE GroupKeysKeepEmpty(_, _)
\* GroupKeys without the skip of rows that have nothing to update
GroupKeysKeepEmpty(rows, seen) ==
    IF rows = <<>> THEN <<>>
    ELSE LET c == Head(rows).cols
         IN  IF c \in seen
             THEN GroupKeysKeepEmpty(Tail(rows), seen)
             ELSE <<c>> \o GroupKeysKeepEmpty(Tail(rows), seen \cup {c})

RECURSIVE GroupKeys(_, _)
\* mixins.py 139-144: the keys of groups in insertion order
GroupKeys(rows, seen) ==
    IF rows = <<>> THEN <<>>
    ELSE LET c == Head(rows).cols
         IN  IF c = {} \/ c \in seen
             THEN GroupKeys(Tail(rows), seen)
             ELSE <<c>> \o GroupKeys(Tail(rows), seen \cup {c})

\* GroupRows keyed by the number of columns instead of the column set
GroupRowsByWidth(rows, c) ==
    SelectSeq(rows, LAMBDA r : Cardinality(r.cols) = Cardinality(c))

\* mixins.py 144: groups[cols]
GroupRows(rows, c) == SelectSeq(rows, LAMBDA r : r.cols = c)

\* mixins.py 151-152
MaxRows(ncols) ==
    LET q == _MAX_QUERY_PARAMS \div (1 + ncols)
    IN  IF q = 0 THEN 1 ELSE q

RECURSIVE Batched(_, _)
\* itertools.batched(rows, n)
Batched(rows, n) ==
    IF rows = <<>> THEN <<>>
    ELSE IF Len(rows) <= n THEN <<rows>>
    ELSE <<SubSeq(rows, 1, n)>> \o Batched(SubSeq(rows, n + 1, Len(rows)), n)

RECURSIVE Chunks(_, _)
\* mixins.py 149-157: the (cols, batch) pairs in the order the loops visit them
Chunks(rows, keys) ==
    IF keys = <<>> THEN <<>>
    ELSE LET c == Head(keys)
             bs == Batched(GroupRows(rows, c), MaxRows(Cardinality(c)))
         IN  [i \in 1..Len(bs) |-> [cols |-> c, batch |-> bs[i]]]
             \o Chunks(rows, Tail(keys))

\* mixins.py 103-107
WorkspaceFilter(hasWs) == IF hasWs THEN workspace_id ELSE NoFilter

----------------------------------------------------------------------------
(* The store: UPDATE statements against the table, and the session *)

NotFoundMsg == "row not found or workspace mismatch"
EmptyMsg == "no fields to update"
IntegrityMsg == "IntegrityError: duplicate key value violates unique constraint"

\* WHERE t.id = :id [AND t.workspace_id = :workspace_id]
StmtMatches(tbl, id, ws) ==
    tbl[id] # Absent /\ (ws = NoFilter \/ tbl[id].ws = ws)

\* WriteRow with a SET list of every column: a column the statement has no
\* value for is set to NULL
WriteRowEveryColumn(tbl, id, vals) ==
    [tbl EXCEPT ![id] = [f \in DOMAIN tbl[id] |->
                            IF f \in DOMAIN vals THEN vals[f]
                            ELSE IF f \in Fields THEN None ELSE tbl[id][f]]]

\* SET c = d.c for the statement's columns; every other column is kept
WriteRow(tbl, id, vals) ==
    [tbl EXCEPT ![id] = [f \in DOMAIN tbl[id] |->
                            IF f \in DOMAIN vals THEN vals[f] ELSE tbl[id][f]]]

\* the UNIQUE constraint on name (NULLs never collide)
UniqueOK(tbl) ==
    \A i, j \in DOMAIN tbl :
        (i # j /\ tbl[i] # Absent /\ tbl[j] # Absent /\ tbl[i].name # None)
            => tbl[i].name # tbl[j].name

RECURSIVE ApplyInOrder(_, _, _, _, _)
\* The rows of one statement are written one after another and the unique
\* index is checked at every row, so a collision with a value that a later
\* row of the same statement would have moved away still fails.
ApplyInOrder(tbl, order, pick, batch, cols) ==
    IF order = <<>> THEN [ok |-> TRUE, tbl |-> tbl]
    ELSE LET id == Head(order)
             t2 == WriteRow(tbl, id, [c \in cols |-> Get(batch[pick[id]], c)])
         IN  IF UniqueOK(t2)
             THEN ApplyInOrder(t2, Tail(order), pick, batch, cols)
             ELSE [ok |-> FALSE, tbl |-> tbl]

\* mixins.py 256-258
MissingIds(batch, rows) ==
    {batch[i].id : i \in DOMAIN batch} \ {rows[i].id : i \in DOMAIN rows}

\* the target rows the chunk's statement joins
Matched(tbl, batch, ws) ==
    {id \in {batch[i].id : i \in DOMAIN batch} : StmtMatches(tbl, id, ws)}

\* mixins.py 220-255: UPDATE t SET .. FROM (VALUES ..) AS d WHERE .. RETURNING,
\* with the store's free choices fixed: a target row joined by several VALUES
\* rows is updated once, by the row pick names; the target rows are visited
\* in the given order.  A failed statement changes nothing.
BatchOutcome(tbl, batch, cols, ws, pick, order) ==
    LET r == ApplyInOrder(tbl, order, pick, batch, cols)
        ixs == SortedSeq({pick[id] : id \in DOMAIN pick})
    IN  [ok |-> r.ok,
         tbl |-> r.tbl,
         rows |-> IF r.ok
                  THEN [k \in DOMAIN ixs |->
                          [id |-> batch[ixs[k]].id,
                           vals |-> [c \in cols |-> r.tbl[batch[ixs[k]].id][c]]]]
                  ELSE <<>>]

\* every outcome the store can produce for the chunk's statement
BatchOutcomes(tbl, batch, cols, ws) ==
    LET matched == Matched(tbl, batch, ws)
        picks == {p \in [matched -> DOMAIN batch] :
                        \A id \in matched : batch[p[id]].id = id}
    IN  {BatchOutcome(tbl, batch, cols, ws, p, o) : p \in picks, o \in Perms(matched)}

\* the outcome under one fixed resolution of the store's choices: the first
\* joined VALUES row and ascending ids, or the last row and descending ids
ResolvedOutcome(tbl, batch, cols, ws, how) ==
    LET matched == Matched(tbl, batch, ws)
        idxs(id) == {i \in DOMAIN batch : batch[i].id = id}
        first(id) == CHOOSE i \in idxs(id) : \A j \in idxs(id) : i <= j
        last(id) == CHOOSE i \in idxs(id) : \A j \in idxs(id) : i >= j
        asc == SortedSeq(matched)
    IN  IF how = "first"
        THEN BatchOutcome(tbl, batch, cols, ws, [id \in matched |-> first(id)], asc)
        ELSE BatchOutcome(tbl, batch, cols, ws, [id \in matched |-> last(id)],
                          [k \in DOMAIN asc |-> asc[Len(asc) + 1 - k]])

\* RowOutcome with the tenant predicate left off the row-level statement
RowOutcomeNoTenant(tbl, row, cols, ws) ==
    IF tbl[row.id] = Absent
    THEN [res |-> "none", tbl |-> tbl, out |-> <<>>]
    ELSE LET t2 == WriteRow(tbl, row.id, [c \in cols |-> Get(row, c)])
         IN  IF UniqueOK(t2)
             THEN [res |-> "row", tbl |-> t2,
                   out |-> <<[id |-> row.id, vals |-> [c \in cols |-> t2[row.id][c]]]>>]
             ELSE [res |-> "integrity", tbl |-> tbl, out |-> <<>>]

\* mixins.py 272-282: UPDATE t SET .. WHERE id = :id [AND workspace_id = ..]
\* RETURNING; res is "row" (one row returned), "none" or "integrity".
RowOutcome(tbl, row, cols, ws) ==
    IF ~StmtMatches(tbl, row.id, ws)
    THEN [res |-> "none", tbl |-> tbl, out |-> <<>>]
    ELSE LET t2 == WriteRow(tbl, row.id, [c \in cols |-> Get(row, c)])
         IN  IF UniqueOK(t2)
             THEN [res |-> "row", tbl |-> t2,
                   out |-> <<[id |-> row.id, vals |-> [c \in cols |-> t2[row.id][c]]]>>]
             ELSE [res |-> "integrity", tbl |-> tbl, out |-> <<>>]

Event(ev, cols, rows, ws, res) ==
    [ev |-> ev, cols |-> cols, ixs |-> [i \in DOMAIN rows |-> rows[i].ix],
     ids |-> [i \in DOMAIN rows |-> rows[i].id], ws |-> ws, res |-> res]

\* Commit leaving the transaction open: nothing is committed and the
\* session goes on
CommitSkipped(s) == s

\* AsyncSession.commit(): the transaction's writes become the stored table
\* (a transaction aborted by a failed statement commits nothing)
Commit(s) ==
    [s EXCEPT !.db = IF s.sess = "aborted" THEN s.db ELSE s.tx,
              !.tx = IF s.sess = "aborted" THEN s.db ELSE s.tx,
              !.sess = "clean",
              !.log = Append(@, Event("commit", {}, <<>>, NoFilter, "ok"))]

\* Rollback of a session that never committed during the call: the stored
\* table is back to what it was when the call began
RollbackWholeCall(s) ==
    [s EXCEPT !.db = initial, !.tx = initial, !.sess = "clean",
              !.log = Append(@, Event("rollback", {}, <<>>, NoFilter, "ok"))]

\* AsyncSession.rollback()
Rollback(s) ==
    [s EXCEPT !.tx = s.db, !.sess = "clean",
              !.log = Append(@, Event("rollback", {}, <<>>, NoFilter, "ok"))]

NewRun(tbl) ==
    [pc |-> "start", db |-> tbl, tx |-> tbl, sess |-> "clean",
     queue |-> <<>>, fb |-> <<>>, fbCols |-> {}, fbUpdated |-> <<>>,
     fbErrors |-> <<>>, updated |-> <<>>, errors |-> <<>>, exc |-> "",
     log |-> <<>>]

----------------------------------------------------------------------------
(* bulk_update, steps 4-5 and the result *)

\* mixins.py 189-195
Finalise(s) ==
    LET empties == SelectSeq(Normalised(payload, update_fields, include_none),
                             LAMBDA r : r.cols = {})
    IN  [s EXCEPT !.pc = "done",
                  !.errors = @ \o [i \in DOMAIN empties |->
                                     [id |-> empties[i].id, error |-> EmptyMsg]]]

\* mixins.py 149, 154: the next chunk, or the end of both loops
Continue(s) ==
    IF s.queue = <<>> THEN Finalise(s) ELSE [s EXCEPT !.pc = "batch"]

\* mixins.py 99-157
Start(s) ==
    IF payload = <<>> THEN [s EXCEPT !.pc = "done"]
    ELSE IF ~has_id THEN [s EXCEPT !.pc = "raised", !.exc = "ValueError"]
    ELSE LET norm == Normalised(payload, update_fields, include_none)
         IN  Continue([s EXCEPT !.queue = Chunks(norm, GroupKeys(norm, {}))])

\* mixins.py 159-165, 181-187: the chunk's statement succeeded
BatchOk(s, o) ==
    LET c == Head(s.queue)
        ws == WorkspaceFilter(has_ws)
        missing == SortedSeq(MissingIds(c.batch, o.rows))
    IN  Continue(Commit(
            [s EXCEPT !.tx = o.tbl,
                      !.updated = @ \o o.rows,
                      !.errors = @ \o [i \in DOMAIN missing |->
                                         [id |-> missing[i], error |-> NotFoundMsg]],
                      !.queue = Tail(@),
                      !.log = Append(@, Event("batch", c.cols, c.batch, ws, "ok"))]))

\* BatchIntegrity without the except clause: the violation leaves the call
BatchIntegrityPropagates(s) ==
    LET c == Head(s.queue)
    IN  [s EXCEPT !.pc = "raised", !.exc = "IntegrityError", !.sess = "aborted",
                  !.log = Append(@, Event("batch", c.cols, c.batch,
                                          WorkspaceFilter(has_ws), "integrity"))]

\* mixins.py 166-176: the chunk's statement raised IntegrityError
BatchIntegrity(s) ==
    LET c == Head(s.queue)
        ws == WorkspaceFilter(has_ws)
        r == Rollback([s EXCEPT !.sess = "aborted",
                                !.log = Append(@, Event("batch", c.cols, c.batch, ws, "integrity"))])
    IN  [r EXCEPT !.pc = "fallback", !.fb = c.batch, !.fbCols = c.cols,
                  !.fbUpdated = <<>>, !.fbErrors = <<>>, !.queue = Tail(@)]

\* mixins.py 271, 291, 177-179: the next row, or the return to bulk_update
NextRow(s) ==
    LET t == [s EXCEPT !.fb = Tail(@)]
    IN  IF t.fb # <<>> THEN t
        ELSE Continue([t EXCEPT !.updated = @ \o t.fbUpdated,
                                !.errors = @ \o t.fbErrors,
                                !.fbUpdated = <<>>, !.fbErrors = <<>>, !.fbCols = {}])

\* RowUpdated without the commit of line 285
RowUpdatedNoCommit(s, o) ==
    LET ws == WorkspaceFilter(has_ws)
    IN  NextRow([s EXCEPT !.tx = o.tbl,
                          !.fbUpdated = @ \o o.out,
                          !.log = Append(@, Event("row", s.fbCols, <<Head(s.fb)>>, ws, "ok"))])

\* mixins.py 283-285
RowUpdated(s, o) ==
    LET ws == WorkspaceFilter(has_ws)
    IN  NextRow(Commit(
            [s EXCEPT !.tx = o.tbl,
                      !.fbUpdated = @ \o o.out,
                      !.log = Append(@, Event("row", s.fbCols, <<Head(s.fb)>>, ws, "ok"))]))

\* RowMissing telling a row of another workspace from a row that is not stored
RowMissingLeaks(s) ==
    LET ws == WorkspaceFilter(has_ws)
        msg == IF s.db[Head(s.fb).id] # Absent THEN "workspace mismatch" ELSE NotFoundMsg
    IN  NextRow([s EXCEPT !.fbErrors = Append(@, [id |-> Head(s.fb).id, error |-> msg]),
                          !.log = Append(@, Event("row", s.fbCols, <<Head(s.fb)>>, ws, "none"))])

\* mixins.py 286-287
RowMissing(s) ==
    LET ws == WorkspaceFilter(has_ws)
    IN  NextRow([s EXCEPT !.fbErrors = Append(@, [id |-> Head(s.fb).id, error |-> NotFoundMsg]),
                          !.log = Append(@, Event("row", s.fbCols, <<Head(s.fb)>>, ws, "none"))])

\* RowIntegrity leaving the loop at the first violating row
RowIntegrityBreaks(s) ==
    LET ws == WorkspaceFilter(has_ws)
        r == Rollback([s EXCEPT !.sess = "aborted",
                                !.log = Append(@, Event("row", s.fbCols, <<Head(s.fb)>>, ws, "integrity"))])
    IN  NextRow([r EXCEPT !.fbErrors = Append(@, [id |-> Head(s.fb).id, error |-> IntegrityMsg]),
                          !.fb = <<Head(@)>>])

\* mixins.py 288-290
RowIntegrity(s) ==
    LET ws == WorkspaceFilter(has_ws)
        r == Rollback([s EXCEPT !.sess = "aborted",
                                !.log = Append(@, Event("row", s.fbCols, <<Head(s.fb)>>, ws, "integrity"))])
    IN  NextRow([r EXCEPT !.fbErrors = Append(@, [id |-> Head(s.fb).id, error |-> IntegrityMsg])])

\* mixins.py 254, 281: execute() raised something that is no IntegrityError
\* (connection lost, statement timeout, a transaction left aborted); neither
\* except clause catches it and the call ends with the exception.
Raised(s) ==
    LET ws == WorkspaceFilter(has_ws)
        e == IF s.pc = "batch"
             THEN Event("batch", Head(s.queue).cols, Head(s.queue).batch, ws, "error")
             ELSE Event("row", s.fbCols, <<Head(s.fb)>>, ws, "error")
    IN  [s EXCEPT !.pc = "raised", !.exc = "DBAPIError", !.log = Append(@, e)]

\* The steps of one call, from state s to state t
StartStep(s, t) == s.pc = "start" /\ t = Start(s)

BatchOkStep(s, t) ==
    /\ s.pc = "batch" /\ s.sess = "clean"
    /\ \E o \in BatchOutcomes(s.tx, Head(s.queue).batch, Head(s.queue).cols,
                              WorkspaceFilter(has_ws)) :
           o.ok /\ t = BatchOk(s, o)

BatchIntegrityStep(s, t) ==
    /\ s.pc = "batch" /\ s.sess = "clean"
    /\ \E o \in BatchOutcomes(s.tx, Head(s.queue).batch, Head(s.queue).cols,
                              WorkspaceFilter(has_ws)) : ~o.ok
    /\ t = BatchIntegrity(s)

RowStep(s, t) ==
    /\ s.pc = "fallback" /\ s.sess = "clean"
    /\ LET o == RowOutcome(s.tx, Head(s.fb), s.fbCols, WorkspaceFilter(has_ws))
       IN  \/ o.res = "row" /\ t = RowUpdated(s, o)
           \/ o.res = "none" /\ t = RowMissing(s)
           \/ o.res = "integrity" /\ t = RowIntegrity(s)

RaisedStep(s, t) == s.pc \in {"batch", "fallback"} /\ t = Raised(s)

\* the chunk's statement with the store's choices resolved as `store` says
ResolvedBatchStep(s, t) ==
    /\ s.pc = "batch" /\ s.sess = "clean"
    /\ LET o == ResolvedOutcome(s.tx, Head(s.queue).batch, Head(s.queue).cols,
                                WorkspaceFilter(has_ws), store)
       IN  t = IF o.ok THEN BatchOk(s, o) ELSE BatchIntegrity(s)

----------------------------------------------------------------------------
(* Specification of one bulk_update call *)

Configs == {<<UNSET, FALSE>>, <<UNSET, TRUE>>, <<{"name"}, FALSE>>, <<{"name"}, TRUE>>}

Idle == [NewRun(PlainTable) EXCEPT !.pc = "off"]

inputs == <<payload, update_fields, include_none, has_id, has_ws, initial, store>>
arith == <<group_fields, group_rows, chunk_sizes>>
finder == <<config, request, found, pages>>
services == <<auth, client, cache>>

\* no search service in use
NoSearch ==
    /\ config = <<>> /\ request = <<>> /\ found = <<>> /\ pages = <<>>

\* no auth repository, API client or cache manager in use
NoServices ==
    /\ auth = <<>> /\ client = <<>> /\ cache = <<>>

Init ==
    /\ payload \in SeqsUpTo(PayloadRows, MaxPayload)
    /\ \E c \in Configs : update_fields = c[1] /\ include_none = c[2]
    /\ has_id \in BOOLEAN
    /\ has_id \/ Len(payload) <= 1
    /\ has_ws \in BOOLEAN
    /\ initial = IF has_ws THEN TenantTable ELSE PlainTable
    /\ run = NewRun(initial)
    /\ twin = Idle
    /\ store = "any"
    /\ group_fields = 0 /\ group_rows = 0 /\ chunk_sizes = <<>>
    /\ NoSearch
    /\ NoServices

CallBulkUpdate == StartStep(run, run') /\ UNCHANGED <<inputs, twin, arith, finder, services>>

ExecuteBatchUpdate == BatchOkStep(run, run') /\ UNCHANGED <<inputs, twin, arith, finder, services>>

BatchIntegrityError == BatchIntegrityStep(run, run') /\ UNCHANGED <<inputs, twin, arith, finder, services>>

FallbackRow == RowStep(run, run') /\ UNCHANGED <<inputs, twin, arith, finder, services>>

ExecuteRaises == RaisedStep(run, run') /\ UNCHANGED <<inputs, twin, arith, finder, services>>

Next ==
    \/ CallBulkUpdate
    \/ ExecuteBatchUpdate
    \/ BatchIntegrityError
    \/ FallbackRow
    \/ ExecuteRaises

Spec == Init /\ [][Next]_vars

----------------------------------------------------------------------------
(* Two worlds: the same call against the table with row ForeignId owned by *)
(* another workspace (run) and against the table without it (twin)         *)

Terminal(s) == s.pc \in {"done", "raised"}

TwinInit ==
    /\ payload \in SeqsUpTo(PayloadRows, MaxPayload)
    /\ \E i \in DOMAIN payload : payload[i].id = ForeignId
    /\ \E c \in Configs : update_fields = c[1] /\ include_none = c[2]
    /\ has_id = TRUE
    /\ has_ws = TRUE
    /\ initial = TenantTable
    /\ run = NewRun(TenantTable)
    /\ twin = NewRun(TenantTableWithout3)
    /\ store \in {"first", "last"}
    /\ group_fields = 0 /\ group_rows = 0 /\ chunk_sizes = <<>>
    /\ NoSearch
    /\ NoServices

WorldStep(s, t) ==
    \/ StartStep(s, t)
    \/ ResolvedBatchStep(s, t)
    \/ RowStep(s, t)

FirstWorld == ~Terminal(run) /\ WorldStep(run, run') /\ UNCHANGED <<inputs, twin, arith, finder, services>>

SecondWorld == Terminal(run) /\ WorldStep(twin, twin') /\ UNCHANGED <<inputs, run, arith, finder, services>>

TwinNext == FirstWorld \/ SecondWorld

TwinSpec == TwinInit /\ [][TwinNext]_vars

----------------------------------------------------------------------------
(* Chunk arithmetic: one group of group_rows rows with group_fields fields *)

MaxChunks == 4

FieldCounts == {1, 2, 3, 4, 7, 9, 9999, 19999, 20000, 25000}
RowCounts == {1, 2, 3, 4, 5, 4000, 5000, 6666, 6667, 10000, 10001, 20000}

\* mixins.py 220-241: the bound parameters of one chunk statement:
\* id_i and col_i for every row, and workspace_id when the filter is set
ParamCount(nrows, ncols, hasWs) ==
    nrows * (1 + ncols) + IF hasWs THEN 1 ELSE 0

ArithInit ==
    /\ payload = <<>> /\ update_fields = UNSET /\ include_none = FALSE
    /\ has_id = TRUE /\ initial = PlainTable /\ run = Idle /\ twin = Idle
    /\ store = "any"
    /\ has_ws \in BOOLEAN
    /\ group_fields \in FieldCounts
    /\ group_rows \in RowCounts
    /\ group_rows <= MaxChunks * MaxRows(group_fields)
    /\ chunk_sizes = <<>>
    /\ NoSearch
    /\ NoServices

\* mixins.py 151-157 for that group
SplitGroup ==
    /\ chunk_sizes = <<>>
    /\ LET bs == Batched([i \in 1..group_rows |-> i], MaxRows(group_fields))
       IN  chunk_sizes' = [k \in DOMAIN bs |-> Len(bs[k])]
    /\ UNCHANGED <<inputs, run, twin, group_fields, group_rows, finder, services>>

ArithNext == SplitGroup

ArithSpec == ArithInit /\ [][ArithNext]_vars

----------------------------------------------------------------------------
(* str values: a str of a request is a sequence of characters; the strings *)
(* stored in a table are looked up in Text, stored integers in Number      *)

Whitespace == {" "}

DigitValue ==
    "0" :> 0 @@ "1" :> 1 @@ "2" :> 2 @@ "3" :> 3 @@ "4" :> 4 @@
    "5" :> 5 @@ "6" :> 6 @@ "7" :> 7 @@ "8" :> 8 @@ "9" :> 9

LowerOf == "A" :> "a" @@ "B" :> "b" @@ "X" :> "x"

\* collation order of the characters in use
CharRank ==
    " " :> 0 @@ "," :> 1 @@ "-" :> 2 @@ "1" :> 3 @@ "5" :> 4 @@
    "A" :> 5 @@ "B" :> 6 @@ "X" :> 7 @@ "a" :> 8 @@ "b" :> 9 @@
    "c" :> 10 @@ "d" :> 11 @@ "x" :> 12

Text ==
    "a" :> <<"a">> @@ "b" :> <<"b">> @@ "c" :> <<"c">> @@ "d" :> <<"d">> @@
    "" :> <<>> @@ "Ab" :> <<"A", "b">>

Number == "1" :> 1 @@ "5" :> 5

RECURSIVE lstrip(_)
lstrip(t) == IF t # <<>> /\ Head(t) \in Whitespace THEN lstrip(Tail(t)) ELSE t

RECURSIVE rstrip(_)
rstrip(t) ==
    IF t # <<>> /\ t[Len(t)] \in Whitespace THEN rstrip(SubSeq(t, 1, Len(t) - 1)) ELSE t

\* str.strip()
strip(t) == rstrip(lstrip(t))

\* str.lower() and SQL lower()
lower(t) == [i \in DOMAIN t |-> IF t[i] \in DOMAIN LowerOf THEN LowerOf[t[i]] ELSE t[i]]

RECURSIVE split(_, _)
\* str.split(sep): the pieces between separators, empty pieces kept
split(t, sep) ==
    IF \A i \in DOMAIN t : t[i] # sep THEN <<t>>
    ELSE LET k == CHOOSE i \in DOMAIN t : t[i] = sep /\ \A j \in 1..(i - 1) : t[j] # sep
         IN  <<SubSeq(t, 1, k - 1)>> \o split(SubSeq(t, k + 1, Len(t)), sep)

RECURSIVE DigitsValue(_, _)
DigitsValue(t, acc) ==
    IF t = <<>> THEN acc ELSE DigitsValue(Tail(t), 10 * acc + DigitValue[Head(t)])

\* int(value): surrounding whitespace is dropped, then an optional sign and
\* at least one digit; anything else is a ValueError (ok = FALSE)
int(t) ==
    LET s == strip(t)
        signed == s # <<>> /\ Head(s) \in {"-", "+"}
        body == IF signed THEN Tail(s) ELSE s
    IN  IF body # <<>> /\ \A i \in DOMAIN body : body[i] \in DOMAIN DigitValue
        THEN [ok |-> TRUE,
              v |-> IF signed /\ Head(s) = "-" THEN 0 - DigitsValue(body, 0)
                    ELSE DigitsValue(body, 0)]
        ELSE [ok |-> FALSE, v |-> 0]

\* x LIKE '%' || y || '%'
Contains(x, y) ==
    \E i \in 0..(Len(x) - Len(y)) : SubSeq(x, i + 1, i + Len(y)) = y

StartsWith(x, y) == Len(y) <= Len(x) /\ SubSeq(x, 1, Len(y)) = y

EndsWith(x, y) == Len(y) <= Len(x) /\ SubSeq(x, Len(x) - Len(y) + 1, Len(x)) = y

RECURSIVE TextLess(_, _)
\* x < y for character data
TextLess(x, y) ==
    IF y = <<>> THEN FALSE
    ELSE IF x = <<>> THEN TRUE
    ELSE IF Head(x) # Head(y) THEN CharRank[Head(x)] < CharRank[Head(y)]
    ELSE TextLess(Tail(x), Tail(y))

----------------------------------------------------------------------------
(* The searched entity: its columns, a joined relation, the configuration  *)

model_name == "Item"

\* column.type.python_type of the columns a condition can name
ColumnType ==
    "id" :> "int" @@ "name" :> "str" @@ "qty" :> "int" @@ "owners.name" :> "str"

NoOwner == "<no owner>"

\* the row of the relation "owners" each row joins (rows without one drop
\* out of an inner join)
OwnerOf == (1 :> "Ab") @@ (2 :> NoOwner) @@ (3 :> "c")

\* a table holding an empty and a null name and a null qty
SparseTable ==
    (1 :> [ws |-> 1, name |-> "", qty |-> "5"]) @@
    (2 :> [ws |-> 1, name |-> None, qty |-> None]) @@
    (3 :> [ws |-> 2, name |-> "Ab", qty |-> "1"])

\* join_columns of the configuration: "owner" resolves to owners.name, "ghost"
\* is configured without a column
JoinColumns ==
    "owner" :> [join |-> "owners", column |-> "owners.name"] @@
    "ghost" :> [join |-> "owners", column |-> None]

\* search_service.py 31-41: SearchConfig.__init__ (an argument left out or
\* empty is the empty list or set here)
SearchConfig(simple, joins, searchable, sortable) ==
    [simple_columns |-> simple,
     join_columns |-> joins,
     searchable_columns |-> searchable,
     sortable_columns |-> IF sortable = {} THEN simple ELSE sortable]

SimpleColumns == {"id", "name", "qty"}

SearchConfigs ==
    {SearchConfig(SimpleColumns, JoinColumns, s, {}) : s \in {<<>>, <<"name">>}}

\* a stored value as SQL sees it: null or not, and the value as character
\* data (str columns) or as a number (int columns)
Typed(column, raw) ==
    IF raw = None THEN [null |-> TRUE, v |-> 0]
    ELSE IF ColumnType[column] = "int" THEN [null |-> FALSE, v |-> Number[raw]]
    ELSE [null |-> FALSE, v |-> Text[raw]]

\* the value of a column in a row of the (joined) query
ColumnValue(tbl, id, column) ==
    IF column = "id" THEN [null |-> FALSE, v |-> id]
    ELSE Typed(column, IF column = "owners.name" THEN OwnerOf[id] ELSE tbl[id][column])

----------------------------------------------------------------------------
(* exceptions/search.py *)

NoError == [kind |-> "", field_name |-> "", value |-> <<>>, expected_type |-> "",
            model_name |-> ""]

InvalidFilterFieldError(field, model) ==
    [NoError EXCEPT !.kind = "InvalidFilterFieldError", !.field_name = field,
                    !.model_name = model]

InvalidSortFieldError(field, model) ==
    [NoError EXCEPT !.kind = "InvalidSortFieldError", !.field_name = field,
                    !.model_name = model]

InvalidSearchFieldError(model) ==
    [NoError EXCEPT !.kind = "InvalidSearchFieldError", !.model_name = model]

FilterValueError(field, value, expected) ==
    [NoError EXCEPT !.kind = "FilterValueError", !.field_name = field,
                    !.value = value, !.expected_type = expected]

\* an exception that is none of the above (AttributeError, or the database
\* driver's error for a statement the server rejects)
OtherError(kind) == [NoError EXCEPT !.kind = kind]

----------------------------------------------------------------------------
(* search_service.py: from the request to the query *)

StringOperators == {"contains", "does_not_contain", "starts_with", "ends_with"}
EmptinessOperators == {"is_empty", "is_not_empty"}
OrderOperators == {"greater_than", "less_than", "greater_or_equal", "less_or_equal"}
ListOperators == {"in", "not_in"}
FilterOperator ==
    {"equals", "not_equals"} \cup StringOperators \cup EmptinessOperators
        \cup OrderOperators \cup ListOperators

\* search_service.py 295-314 for the types in use (int, str)
_convert_filter_value(column, value, column_name) ==
    IF ColumnType[column] = "int"
    THEN LET r == int(value)
         IN  IF r.ok THEN [ok |-> TRUE, v |-> r.v, exc |-> NoError]
             ELSE [ok |-> FALSE, v |-> 0, exc |-> FilterValueError(column_name, value, "int")]
    ELSE [ok |-> TRUE, v |-> strip(value), exc |-> NoError]

\* search_service.py 237-250: the column a filter item names; None when the
\* name is in neither simple_columns nor join_columns, or is a join column
\* configured without a column
ResolveColumn(cfg, column_name) ==
    IF column_name \in cfg.simple_columns THEN column_name
    ELSE IF column_name \in DOMAIN cfg.join_columns
         THEN cfg.join_columns[column_name].column
    ELSE None

Failed(e) == [ok |-> FALSE, exc |-> e, cond |-> <<>>]

Built(op, column, arg) ==
    [ok |-> TRUE, exc |-> NoError, cond |-> [op |-> op, column |-> column, arg |-> arg]]

\* the first position of results that failed, 0 when none did
FirstBad(results) ==
    LET bad == {k \in DOMAIN results : ~results[k].ok}
    IN  IF bad = {} THEN 0 ELSE CHOOSE k \in bad : \A j \in bad : k <= j

\* search_service.py 281-284, 287-290: every piece of the comma-separated
\* value, stripped and converted
ConvertedPieces(column, pieces, column_name) ==
    [k \in DOMAIN pieces |-> _convert_filter_value(column, strip(pieces[k]), column_name)]

\* ConditionFor applying, for in and not_in, the pieces that convert and
\* dropping the others
ConditionDroppingBadPieces(item, column, whole, each) ==
    IF item.operator \in ListOperators
    THEN LET good == SelectSeq(each, LAMBDA r : r.ok)
         IN  Built(item.operator, column, [k \in DOMAIN good |-> good[k].v])
    ELSE IF ~whole.ok THEN Failed(whole.exc)
    ELSE Built(item.operator, column,
               IF item.operator \in EmptinessOperators THEN <<>> ELSE whole.v)

\* search_service.py 252-293: the whole value is converted first (253),
\* whatever the operator; in and not_in then convert every piece
ConditionFor(item, column, whole, each) ==
    IF ~whole.ok THEN Failed(whole.exc)
    ELSE IF item.operator \in ListOperators
    THEN IF FirstBad(each) # 0 THEN Failed(each[FirstBad(each)].exc)
         ELSE Built(item.operator, column, [k \in DOMAIN each |-> each[k].v])
    ELSE Built(item.operator, column,
               IF item.operator \in EmptinessOperators THEN <<>> ELSE whole.v)

\* search_service.py 230-293: the condition of one filter item, or the
\* exception raised while building it
_build_filter_condition(cfg, item) ==
    IF ResolveColumn(cfg, item.column) = None
    THEN Failed(InvalidFilterFieldError(item.column, model_name))
    ELSE ConditionFor(item, ResolveColumn(cfg, item.column),
                      _convert_filter_value(ResolveColumn(cfg, item.column),
                                            item.value, item.column),
                      ConvertedPieces(ResolveColumn(cfg, item.column),
                                      split(item.value, ","), item.column))

\* search_service.py 212-228: whatever the first failing item raised is
\* logged and replaced by FilterValueError with the item's column, its whole
\* value and the text "valid filter value"
FilterConditions(filters, built) ==
    IF FirstBad(built) # 0
    THEN [ok |-> FALSE, conds |-> <<>>,
          exc |-> FilterValueError(filters[FirstBad(built)].column,
                                   filters[FirstBad(built)].value,
                                   "valid filter value")]
    ELSE [ok |-> TRUE, exc |-> NoError,
          conds |-> [k \in DOMAIN built |-> built[k].cond]]

\* search_service.py 208-228
_apply_filters(cfg, filters) ==
    FilterConditions(filters,
                     [k \in DOMAIN filters |-> _build_filter_condition(cfg, filters[k])])

\* JoinTargets without the test of line 173 against joined_tables: the
\* target is attached for every clause that names one of its columns
JoinTargetsUnchecked(cfg, names, joined) ==
    joined \o SelectSeq([k \in DOMAIN names |->
                            IF names[k] \in DOMAIN cfg.join_columns
                            THEN cfg.join_columns[names[k]].join ELSE None],
                        LAMBDA t : t # None)

RECURSIVE JoinTargets(_, _, _)
\* the join targets of the named columns, each once, in order of first use
JoinTargets(cfg, names, joined) ==
    IF names = <<>> THEN joined
    ELSE LET n == Head(names)
             target == IF n \in DOMAIN cfg.join_columns
                       THEN cfg.join_columns[n].join ELSE None
         IN  IF target # None /\ target \notin Range(joined)
             THEN JoinTargets(cfg, Tail(names), Append(joined, target))
             ELSE JoinTargets(cfg, Tail(names), joined)

\* search_service.py 160-177
_add_joins_for_filters(cfg, filters) ==
    JoinTargets(cfg, [k \in DOMAIN filters |-> filters[k].column], <<>>)

\* search_service.py 179-206: the columns of the free-text disjunction and the
\* normalised term
_apply_search(cfg, search_term) ==
    IF cfg.searchable_columns = <<>>
    THEN [ok |-> FALSE, exc |-> InvalidSearchFieldError(model_name), columns |-> <<>>,
          term |-> <<>>]
    ELSE LET resolved == [k \in DOMAIN cfg.searchable_columns |->
                 LET n == cfg.searchable_columns[k]
                 IN  IF n \in cfg.simple_columns THEN n
                     ELSE IF n \in DOMAIN cfg.join_columns
                          THEN cfg.join_columns[n].column
                     ELSE None]
         IN  [ok |-> TRUE, exc |-> NoError,
              columns |-> SelectSeq(resolved, LAMBDA c : c # None),
              term |-> lower(strip(search_term))]

RECURSIVE _apply_sorting(_, _, _)
\* search_service.py 316-352: the ORDER BY list and the joins it adds
_apply_sorting(cfg, sorts, joined) ==
    IF sorts = <<>> THEN [ok |-> TRUE, exc |-> NoError, order |-> <<>>, joins |-> joined]
    ELSE LET item == Head(sorts)
             n == item.column
             fail(e) == [ok |-> FALSE, exc |-> e, order |-> <<>>, joins |-> joined]
         IN  IF n \notin cfg.sortable_columns /\ n \notin DOMAIN cfg.join_columns
             THEN fail(InvalidSortFieldError(n, model_name))
             ELSE IF n \notin cfg.simple_columns /\ n \notin DOMAIN cfg.join_columns
             THEN fail(InvalidSortFieldError(n, model_name))
             ELSE LET column == IF n \in cfg.simple_columns THEN n
                                ELSE cfg.join_columns[n].column
                      target == IF n \in cfg.simple_columns THEN None
                                ELSE cfg.join_columns[n].join
                      j2 == IF target # None /\ target \notin Range(joined)
                            THEN Append(joined, target) ELSE joined
                  IN  IF column = None THEN fail(OtherError("AttributeError"))
                      ELSE LET rest == _apply_sorting(cfg, Tail(sorts), j2)
                           IN  IF rest.ok
                               THEN [rest EXCEPT !.order =
                                        <<[column |-> column,
                                           desc |-> item.direction = "desc"]>> \o @]
                               ELSE rest

\* the query of search_service.py 76-84 before anything is added to it
BaseQuery(ws) ==
    [ws |-> ws, joins |-> <<>>, search |-> <<>>, term |-> <<>>, searching |-> FALSE,
     conds |-> <<>>, order |-> <<>>]

\* TenantFilter without lines 83-84: no tenant predicate
NoTenantFilter(req, hasWs) == NoFilter

\* search_service.py 83-84
TenantFilter(req, hasWs) ==
    IF req.workspace_id # NoFilter /\ hasWs THEN req.workspace_id ELSE NoFilter

\* search_service.py 87-89
FilterJoins(cfg, req) ==
    IF req.filter # <<>> THEN _add_joins_for_filters(cfg, req.filter) ELSE <<>>

\* search_service.py 92-93
SearchStage(cfg, req) ==
    IF req.search # <<>> THEN _apply_search(cfg, req.search)
    ELSE [ok |-> TRUE, exc |-> NoError, columns |-> <<>>, term |-> <<>>]

\* search_service.py 96-97
FilterStage(cfg, req) ==
    IF req.filter # <<>> THEN _apply_filters(cfg, req.filter)
    ELSE [ok |-> TRUE, exc |-> NoError, conds |-> <<>>]

\* search_service.py 100-104
SortStage(cfg, req, joined) ==
    IF req.sort # <<>> THEN _apply_sorting(cfg, req.sort, joined)
    ELSE [ok |-> TRUE, exc |-> NoError,
          order |-> <<[column |-> "id", desc |-> FALSE]>>, joins |-> joined]

\* the query of the stages in the order they run: the first stage that
\* raises ends the call
Assemble(ws, s, f, o) ==
    IF ~s.ok THEN [ok |-> FALSE, exc |-> s.exc, query |-> BaseQuery(ws)]
    ELSE IF ~f.ok THEN [ok |-> FALSE, exc |-> f.exc, query |-> BaseQuery(ws)]
    ELSE IF ~o.ok THEN [ok |-> FALSE, exc |-> o.exc, query |-> BaseQuery(ws)]
    ELSE [ok |-> TRUE, exc |-> NoError,
          query |-> [ws |-> ws, joins |-> o.joins, search |-> s.columns,
                     term |-> s.term, searching |-> s.columns # <<>>,
                     conds |-> f.conds, order |-> o.order]]

\* search_service.py 75-104: the query search() builds, or the exception that
\* ends the call before any statement is executed
BuildQuery(cfg, req, hasWs) ==
    Assemble(TenantFilter(req, hasWs), SearchStage(cfg, req), FilterStage(cfg, req),
             SortStage(cfg, req, FilterJoins(cfg, req)))

----------------------------------------------------------------------------
(* search_service.py: the query against the table *)

Truth(b) == IF b THEN "T" ELSE "F"

Less(type, x, y) == IF type = "int" THEN x < y ELSE TextLess(x, y)

\* a condition the server rejects when the statement is executed: lower() of
\* an integer column (260-267), an integer column compared with '' (268-271)
Faulty(c) ==
    ColumnType[c.column] = "int" /\ c.op \in StringOperators \cup EmptinessOperators

\* search_service.py 256-291: the SQL value of a condition for a column
\* value cv: true, false or unknown (a comparison with NULL)
ValueOf(c, cv, type) ==
    IF c.op = "is_empty" THEN (IF cv.null THEN "T" ELSE Truth(cv.v = <<>>))
    ELSE IF c.op = "is_not_empty" THEN (IF cv.null THEN "F" ELSE Truth(cv.v # <<>>))
    ELSE IF cv.null THEN "U"
    ELSE IF c.op = "equals" THEN Truth(cv.v = c.arg)
    ELSE IF c.op = "not_equals" THEN Truth(cv.v # c.arg)
    ELSE IF c.op = "contains" THEN Truth(Contains(lower(cv.v), lower(c.arg)))
    ELSE IF c.op = "does_not_contain" THEN Truth(~Contains(lower(cv.v), lower(c.arg)))
    ELSE IF c.op = "starts_with" THEN Truth(StartsWith(lower(cv.v), lower(c.arg)))
    ELSE IF c.op = "ends_with" THEN Truth(EndsWith(lower(cv.v), lower(c.arg)))
    ELSE IF c.op = "greater_than" THEN Truth(Less(type, c.arg, cv.v))
    ELSE IF c.op = "less_than" THEN Truth(Less(type, cv.v, c.arg))
    ELSE IF c.op = "greater_or_equal" THEN Truth(~Less(type, cv.v, c.arg))
    ELSE IF c.op = "less_or_equal" THEN Truth(~Less(type, c.arg, cv.v))
    ELSE IF c.op = "in" THEN Truth(\E k \in DOMAIN c.arg : cv.v = c.arg[k])
    ELSE Truth(\A k \in DOMAIN c.arg : cv.v # c.arg[k])

\* the value of condition c for row id
CondValue(tbl, id, c) ==
    ValueOf(c, ColumnValue(tbl, id, c.column), ColumnType[c.column])

\* lower(column) LIKE %term%
TermIn(cv, term) == ~cv.null /\ Contains(lower(cv.v), term)

\* search_service.py 191-204: lower(column) LIKE %term% for some searchable column
SearchMatches(tbl, id, q) ==
    \E k \in DOMAIN q.search : TermIn(ColumnValue(tbl, id, q.search[k]), q.term)

\* the rows the query selects: WHERE clauses are ANDed, the joins are inner
Selected(tbl, q) ==
    {id \in DOMAIN tbl :
        /\ tbl[id] # Absent
        /\ q.ws = NoFilter \/ tbl[id].ws = q.ws
        /\ "owners" \in Range(q.joins) => OwnerOf[id] # NoOwner
        /\ q.searching => SearchMatches(tbl, id, q)
        /\ \A k \in DOMAIN q.conds : CondValue(tbl, id, q.conds[k]) = "T"}

\* the statement is rejected by the server
QueryFaulty(q) ==
    \/ \E k \in DOMAIN q.conds : Faulty(q.conds[k])
    \/ q.searching /\ \E k \in DOMAIN q.search : ColumnType[q.search[k]] = "int"

\* value va sorts strictly ahead of vb by one ORDER BY key (NULLs are placed
\* as larger than every value)
Precedes(key, va, vb, type) ==
    IF key.desc
    THEN \/ va.null /\ ~vb.null
         \/ ~va.null /\ ~vb.null /\ Less(type, vb.v, va.v)
    ELSE \/ ~va.null /\ vb.null
         \/ ~va.null /\ ~vb.null /\ Less(type, va.v, vb.v)

KeyBefore(tbl, a, b, key) ==
    Precedes(key, ColumnValue(tbl, a, key.column), ColumnValue(tbl, b, key.column),
             ColumnType[key.column])

RECURSIVE Before(_, _, _, _)
\* row a sorts strictly ahead of row b by the ORDER BY list
Before(tbl, a, b, order) ==
    IF order = <<>> THEN FALSE
    ELSE \/ KeyBefore(tbl, a, b, Head(order))
         \/ ~KeyBefore(tbl, b, a, Head(order)) /\ Before(tbl, a, b, Tail(order))

\* every sequence of the selected rows that the ORDER BY list allows: rows
\* that tie on all keys come in any order, and the order may differ from one
\* execution to the next
Orderings(tbl, rows, order) ==
    {p \in Perms(rows) :
        \A i, j \in DOMAIN p : i < j => ~Before(tbl, p[j], p[i], order)}

\* OFFSET offset LIMIT page_size
Window(p, offset, page_size) ==
    IF offset >= Len(p) THEN <<>>
    ELSE SubSeq(p, offset + 1, IF offset + page_size < Len(p) THEN offset + page_size ELSE Len(p))

\* SearchResponse.create with floor division
CreateRoundingDown(items, total, page, page_size) ==
    [items |-> items, total |-> total, page |-> page, page_size |-> page_size,
     total_pages |-> IF total > 0 THEN total \div page_size ELSE 0]

\* schemas/search.py 72-88: SearchResponse.create
Create(items, total, page, page_size) ==
    [items |-> items, total |-> total, page |-> page, page_size |-> page_size,
     total_pages |-> IF total > 0 THEN (total + page_size - 1) \div page_size ELSE 0]

NoResponse == Create(<<>>, 0, 0, 0)

\* the search call before it runs
Ready ==
    [pc |-> "ready", exc |-> NoError, executed |-> 0, query |-> BaseQuery(NoFilter),
     response |-> NoResponse]

\* search_service.py 112-113: an absent page or page_size (0 here) is page 1
\* and 20 rows
PageOf(req) == IF req.page = 0 THEN 1 ELSE req.page

PageSizeOf(req) == IF req.page_size = 0 THEN 20 ELSE req.page_size

\* search_service.py 107-154: the responses for the selected rows, one for
\* each admissible ordering of the page statement
Responses(tbl, q, rows, page, page_size) ==
    {[Ready EXCEPT !.pc = "returned", !.executed = 2, !.query = q,
                   !.response = Create(Window(p, (page - 1) * page_size, page_size),
                                       Cardinality(rows), page, page_size)]
        : p \in Orderings(tbl, rows, q.order)}

\* the relation a column of the query belongs to
RelationOf(column) == IF column = "owners.name" THEN "owners" ELSE model_name

\* the relations whose columns the free text, the conditions or the ORDER BY
\* list of the query name without the relation being joined
Unjoined(q) ==
    ({RelationOf(q.search[k]) : k \in DOMAIN q.search}
        \cup {RelationOf(q.conds[k].column) : k \in DOMAIN q.conds}
        \cup {RelationOf(q.order[k].column) : k \in DOMAIN q.order})
    \ ({model_name} \cup Range(q.joins))

\* the rows of the relation "owners", each named by the row that joins it
OwnerRows == {o \in DOMAIN OwnerOf : OwnerOf[o] # NoOwner}

\* the value of a column for a pair of the product of the table and "owners"
PairValue(tbl, pair, column) ==
    IF RelationOf(column) = "owners" THEN Typed(column, OwnerOf[pair[2]])
    ELSE ColumnValue(tbl, pair[1], column)

\* the pairs a query selects that names "owners" without joining it: the
\* FROM list is the product of the two relations
ProductSelected(tbl, q) ==
    {pair \in (DOMAIN tbl) \X OwnerRows :
        /\ tbl[pair[1]] # Absent
        /\ q.ws = NoFilter \/ tbl[pair[1]].ws = q.ws
        /\ q.searching =>
               \E k \in DOMAIN q.search : TermIn(PairValue(tbl, pair, q.search[k]), q.term)
        /\ \A k \in DOMAIN q.conds :
               ValueOf(q.conds[k], PairValue(tbl, pair, q.conds[k].column),
                       ColumnType[q.conds[k].column]) = "T"}

RECURSIVE PairBefore(_, _, _, _)
\* pair a sorts strictly ahead of pair b by the ORDER BY list
PairBefore(tbl, a, b, order) ==
    IF order = <<>> THEN FALSE
    ELSE LET key == Head(order)
             va == PairValue(tbl, a, key.column)
             vb == PairValue(tbl, b, key.column)
         IN  \/ Precedes(key, va, vb, ColumnType[key.column])
             \/ /\ ~Precedes(key, vb, va, ColumnType[key.column])
                /\ PairBefore(tbl, a, b, Tail(order))

\* search_service.py 107-154 for a query over the product: every pair is
\* counted, and the page lists the table's row of each pair
ProductResponses(tbl, q, pairs, page, page_size) ==
    {[Ready EXCEPT !.pc = "returned", !.executed = 2, !.query = q,
                   !.response = Create(Window([k \in DOMAIN p |-> p[k][1]],
                                              (page - 1) * page_size, page_size),
                                       Cardinality(pairs), page, page_size)]
        : p \in {o \in Perms(pairs) :
                    \A i, j \in DOMAIN o : i < j => ~PairBefore(tbl, o[j], o[i], q.order)}}

\* the ends of a call whose query construction ended as b says: with its
\* exception (no statement executed), with the server's rejection of the count
\* statement, or with a response
Outcomes(tbl, b, page, page_size) ==
    IF ~b.ok THEN {[Ready EXCEPT !.pc = "raised", !.exc = b.exc]}
    ELSE IF QueryFaulty(b.query)
    THEN {[Ready EXCEPT !.pc = "raised", !.exc = OtherError("DBAPIError"),
                        !.executed = 1, !.query = b.query]}
    ELSE IF Unjoined(b.query) # {}
    THEN ProductResponses(tbl, b.query, ProductSelected(tbl, b.query), page, page_size)
    ELSE Responses(tbl, b.query, Selected(tbl, b.query), page, page_size)

\* search_service.py 74-158: every way one call of search can end
SearchOutcomes(tbl, cfg, req, hasWs) ==
    Outcomes(tbl, BuildQuery(cfg, req, hasWs), PageOf(req), PageSizeOf(req))

----------------------------------------------------------------------------
(* Specification of one search call *)

MaxFilters == 2

FilterColumns == {"name", "qty", "owner", "ghost", "bogus"}

FilterValues ==
    {<<>>, <<"1">>, <<"1", ",", "5">>, <<"1", ",", " ", "5">>, <<"1", ",", "x">>,
     <<"a">>, <<" ", "A", ",", "b">>}

Clauses == [column : FilterColumns, value : FilterValues, operator : FilterOperator]

\* the clauses that follow the first one of a filter list
FollowClauses ==
    {[column |-> "name", value |-> <<"a">>, operator |-> "not_equals"],
     [column |-> "qty", value |-> <<"1", ",", "x">>, operator |-> "not_in"],
     [column |-> "bogus", value |-> <<"1">>, operator |-> "equals"]}

FilterLists ==
    {<<>>} \cup {<<c>> \o t : c \in Clauses, t \in SeqsUpTo(FollowClauses, MaxFilters - 1)}

SearchTerms == {<<>>, <<" ", "A">>}

SortLists == {<<>>, <<[column |-> "qty", direction |-> "asc"]>>}

\* the tables searched, each with whether the entity has a workspace_id column
SearchedTables ==
    {<<TenantTable, TRUE>>, <<SparseTable, TRUE>>, <<PlainTable, FALSE>>}

\* no bulk_update in progress, the table t stored
Stored(t) == [Idle EXCEPT !.db = t, !.tx = t]

NoBulkUpdate ==
    /\ payload = <<>> /\ update_fields = UNSET /\ include_none = FALSE
    /\ has_id = TRUE /\ twin = Idle /\ store = "any"
    /\ group_fields = 0 /\ group_rows = 0 /\ chunk_sizes = <<>>

SearchInit ==
    /\ NoBulkUpdate
    /\ \E t \in SearchedTables : initial = t[1] /\ has_ws = t[2]
    /\ run = Stored(initial)
    /\ config \in SearchConfigs
    /\ request \in [search : SearchTerms, page : {0}, page_size : {0},
                    filter : FilterLists, sort : SortLists,
                    workspace_id : {NoFilter, workspace_id}]
    /\ found = Ready
    /\ pages = <<>>
    /\ NoServices

\* search() called on the stored table and returning a response
SearchReturns ==
    /\ found.pc = "ready" /\ run.pc \in {"off", "done"}
    /\ \E o \in SearchOutcomes(run.db, config, request, has_ws) :
           o.pc = "returned" /\ found' = o
    /\ UNCHANGED <<inputs, run, twin, arith, config, request, pages, services>>

\* search() called on the stored table and ending with an exception
SearchRaises ==
    /\ found.pc = "ready" /\ run.pc \in {"off", "done"}
    /\ \E o \in SearchOutcomes(run.db, config, request, has_ws) :
           o.pc = "raised" /\ found' = o
    /\ UNCHANGED <<inputs, run, twin, arith, config, request, pages, services>>

SearchNext == SearchReturns \/ SearchRaises

SearchSpec == SearchInit /\ [][SearchNext]_vars

----------------------------------------------------------------------------
(* A client reading a result page after page with one fixed request *)

MaxSorts == 2

SortItems ==
    {[column |-> "qty", direction |-> "asc"], [column |-> "qty", direction |-> "desc"],
     [column |-> "name", direction |-> "asc"], [column |-> "id", direction |-> "desc"]}

BrowseFilters ==
    {<<>>,
     <<[column |-> "qty", value |-> <<"1">>, operator |-> "equals"]>>,
     <<[column |-> "name", value |-> <<>>, operator |-> "is_not_empty"]>>,
     <<[column |-> "owner", value |-> <<"x">>, operator |-> "does_not_contain"]>>}

PageSizes == {1, 2}

BrowseInit ==
    /\ NoBulkUpdate
    /\ \E t \in SearchedTables : initial = t[1] /\ has_ws = t[2]
    /\ run = Stored(initial)
    /\ config = SearchConfig(SimpleColumns, JoinColumns, <<"name">>, {})
    /\ request \in [search : {<<>>}, page : {1}, page_size : PageSizes,
                    filter : BrowseFilters, sort : SeqsUpTo(SortItems, MaxSorts),
                    workspace_id : {NoFilter, workspace_id}]
    /\ found = Ready
    /\ pages = <<>>
    /\ NoServices

\* the client keeps the page it got and asks for the next one
TurnPage ==
    /\ found.pc = "returned"
    /\ found.response.page < found.response.total_pages
    /\ pages' = Append(pages, found.response)
    /\ request' = [request EXCEPT !.page = @ + 1]
    /\ found' = Ready
    /\ UNCHANGED <<inputs, run, twin, arith, config, services>>

BrowseNext == SearchReturns \/ TurnPage

BrowseSpec == BrowseInit /\ [][BrowseNext]_vars

----------------------------------------------------------------------------
(* SearchResponse.create over totals and page sizes *)

MaxTotal == 250

\* schemas/search.py 55: page_size is at most 100
MaxPageSize == 100

PageCountInit ==
    /\ NoBulkUpdate
    /\ initial = PlainTable /\ has_ws = FALSE /\ run = Idle
    /\ config = SearchConfig(SimpleColumns, JoinColumns, <<>>, {})
    /\ request \in [search : {<<>>}, page : {1}, page_size : 1..MaxPageSize,
                    filter : {<<>>}, sort : {<<>>}, workspace_id : {NoFilter}]
    /\ \E total \in 0..MaxTotal :
           found = [Ready EXCEPT !.pc = "counted", !.executed = 2,
                                 !.response = [NoResponse EXCEPT !.total = total]]
    /\ pages = <<>>
    /\ NoServices

\* search_service.py 149-154 for a count of found.response.total rows
CreateResponse ==
    /\ found.pc = "counted"
    /\ found' = [found EXCEPT !.pc = "returned",
                              !.response = Create(<<>>, found.response.total,
                                                  request.page, request.page_size)]
    /\ UNCHANGED <<inputs, run, twin, arith, config, request, pages, services>>

PageCountNext == CreateResponse

PageCountSpec == PageCountInit /\ [][PageCountNext]_vars

----------------------------------------------------------------------------
(* bulk_update followed by a search of the stored table *)

MaxRoundTrip == 2

EmptinessRequests ==
    [search : {<<>>}, page : {0}, page_size : {0},
     filter : {<<[column |-> c, value |-> v, operator |-> o]>> :
                  c \in Fields, v \in {<<>>, <<"1">>}, o \in EmptinessOperators},
     sort : {<<>>}, workspace_id : {workspace_id}]

RoundTripInit ==
    /\ payload \in SeqsUpTo(PayloadRows, MaxRoundTrip)
    /\ payload # <<>>
    /\ update_fields = UNSET /\ include_none = TRUE
    /\ has_id = TRUE /\ has_ws = TRUE
    /\ initial = TenantTable
    /\ run = NewRun(initial)
    /\ twin = Idle /\ store = "any"
    /\ group_fields = 0 /\ group_rows = 0 /\ chunk_sizes = <<>>
    /\ config = SearchConfig(SimpleColumns, JoinColumns, <<"name">>, {})
    /\ request \in EmptinessRequests
    /\ found = Ready
    /\ pages = <<>>
    /\ NoServices

RoundTripNext ==
    \/ CallBulkUpdate
    \/ ExecuteBatchUpdate
    \/ BatchIntegrityError
    \/ FallbackRow
    \/ SearchReturns
    \/ SearchRaises

RoundTripSpec == RoundTripInit /\ [][RoundTripNext]_vars

----------------------------------------------------------------------------
(* Vocabulary of the properties *)

\* the effective field set of payload row i
Eff(i) == Cand(payload[i], update_fields, include_none)

CountIds(seq, id) == Cardinality({i \in DOMAIN seq : seq[i].id = id})

IsStmt(e) == e.ev \in {"batch", "row"}

Stmts(log) == SelectSeq(log, IsStmt)

OwnRow(id) == initial[id] # Absent /\ initial[id].ws = workspace_id

ForeignRow(id) == initial[id] # Absent /\ initial[id].ws # workspace_id

Last(seq) == seq[Len(seq)]

\* the value the latest entry of seq reports for column c of row id
Latest(seq, id, c) ==
    LET S == {i \in DOMAIN seq : seq[i].id = id /\ c \in DOMAIN seq[i].vals}
    IN  seq[CHOOSE i \in S : \A j \in S : j <= i].vals[c]

Reported(seq, id, c) == \E i \in DOMAIN seq : seq[i].id = id /\ c \in DOMAIN seq[i].vals

----------------------------------------------------------------------------
(* C1 *)

\* C1: when bulk_update has returned, every payload row is accounted for
\* exactly once: for every id, the payload rows carrying it are as many as the
\* entries of updated and errors carrying it.
C1_EveryRowAccountedOnce ==
    run.pc = "done" =>
        \A id \in Ids :
            CountIds(payload, id) = CountIds(run.updated, id) + CountIds(run.errors, id)

----------------------------------------------------------------------------
(* C2 *)

\* C2: on a table with a workspace_id column no statement of the call, set-based
\* or row-level, changes a row of another workspace, in the session or in the
\* stored table, and every statement issued carries the tenant predicate.
C2_TenantIsolation ==
    has_ws =>
        /\ \A id \in Ids :
               ForeignRow(id) => run.db[id] = initial[id] /\ run.tx[id] = initial[id]
        /\ \A i \in DOMAIN run.log :
               IsStmt(run.log[i]) => run.log[i].ws = workspace_id

\* a finished call that named the foreign row in a successful chunk statement
\* and in a row-level statement of a fallback
C2_Witness ==
    /\ has_ws /\ run.pc = "done"
    /\ \E i, j \in DOMAIN run.log :
        /\ run.log[i].ev = "batch" /\ run.log[i].res = "ok"
        /\ ForeignId \in Range(run.log[i].ids)
        /\ run.log[j].ev = "row" /\ run.log[j].ids = <<ForeignId>>

----------------------------------------------------------------------------
(* C4 *)

HeldElsewhere(v, except) ==
    \E j \in Ids \ except : initial[j] # Absent /\ initial[j].name = v

\* Payload rows a, b, c form one chunk; a is a valid update of a row of the
\* caller's workspace, b names a row of another workspace, c writes to a row
\* of the caller's workspace a name that a row outside the payload's reach
\* already holds.
C4_Scenario(a, b, c) ==
    /\ has_ws /\ has_id /\ Len(payload) = 3 /\ {a, b, c} = {1, 2, 3}
    /\ Eff(a) # {} /\ Eff(a) = Eff(b) /\ Eff(b) = Eff(c)
    /\ OwnRow(payload[a].id) /\ ForeignRow(payload[b].id) /\ OwnRow(payload[c].id)
    /\ payload[a].id # payload[c].id
    /\ "name" \in Eff(c) /\ payload[c].name # None
    /\ HeldElsewhere(payload[c].name, {payload[a].id, payload[c].id})
    /\ ("name" \in Eff(a) /\ payload[a].name # None) =>
           /\ ~HeldElsewhere(payload[a].name, {payload[a].id})
           /\ payload[a].name # payload[c].name

\* C4: for such a payload, in any input order, the returned result has updated
\* holding exactly A with its new values, errors holding exactly B with the
\* not-found message and C with the constraint message, and A's new values
\* are stored when the call returns.
C4_MixedChunk ==
    \A a, b, c \in 1..3 :
        (C4_Scenario(a, b, c) /\ run.pc = "done") =>
            /\ run.updated = <<[id |-> payload[a].id,
                               vals |-> [f \in Eff(a) |-> payload[a][f]]]>>
            /\ Len(run.errors) = 2
            /\ Range(run.errors) = {[id |-> payload[b].id, error |-> NotFoundMsg],
                                     [id |-> payload[c].id, error |-> IntegrityMsg]}
            /\ \A f \in Eff(a) : run.db[payload[a].id][f] = payload[a][f]

\* the scenario with C ahead of A in the payload, the call returned
C4_Witness ==
    \E a, b, c \in 1..3 : c < a /\ C4_Scenario(a, b, c) /\ run.pc = "done"

----------------------------------------------------------------------------
(* C5 *)

\* C5: whatever happens after a statement's commit (an integrity violation and
\* rollback in a later chunk, a fallback, an exception ending the call), the
\* stored table keeps, for every row and column, the value of the latest write
\* reported as successful.
C5_CommittedWritesSurvive ==
    LET seq == run.updated \o run.fbUpdated
    IN  \A id \in Ids, c \in Fields :
            Reported(seq, id, c) => run.db[id][c] = Latest(seq, id, c)

\* a chunk committed its writes, then a later chunk's statement violated a
\* constraint and was rolled back
C5_Witness ==
    /\ run.pc = "fallback" /\ run.updated # <<>>
    /\ \E i, j \in DOMAIN run.log :
        /\ i < j
        /\ run.log[i].ev = "batch" /\ run.log[i].res = "ok"
        /\ run.log[j].ev = "rollback"

----------------------------------------------------------------------------
(* C6 *)

\* C6: a chunk statement that violates a constraint leaves nothing behind (the
\* session is clean and holds no unstored write when the next statement is
\* due); the statements that follow it are the row-level statements of its
\* rows, one per row in order, unless an exception ended the call; every row
\* statement that succeeded has its values stored unless a later successful
\* statement overwrote them; and every row violation is an errors entry.
C6_FallbackRowByRow ==
    LET S == Stmts(run.log)
        errs == run.errors \o run.fbErrors
    IN  /\ run.pc \in {"batch", "fallback"} => run.sess = "clean" /\ run.tx = run.db
        /\ \A i \in DOMAIN S :
            (S[i].ev = "batch" /\ S[i].res = "integrity") =>
                /\ \A k \in DOMAIN S[i].ixs :
                       i + k <= Len(S) =>
                           S[i + k].ev = "row" /\ S[i + k].ixs = <<S[i].ixs[k]>>
                /\ i + Len(S[i].ixs) > Len(S) => run.pc \in {"fallback", "raised"}
        /\ \A i \in DOMAIN S :
            (S[i].ev = "row" /\ S[i].res = "ok") =>
                \A c \in S[i].cols :
                    \/ run.db[S[i].ids[1]][c] = payload[S[i].ixs[1]][c]
                    \/ \E j \in DOMAIN S :
                          j > i /\ S[j].res = "ok" /\ c \in S[j].cols
                          /\ S[i].ids[1] \in Range(S[j].ids)
        /\ Cardinality({i \in DOMAIN S : S[i].ev = "row" /\ S[i].res = "integrity"})
             = Cardinality({i \in DOMAIN errs : errs[i].error = IntegrityMsg})

\* a fallback in which a row was stored, a later row violated the constraint
\* and a row after that one was still attempted
C6_Witness ==
    LET S == Stmts(run.log)
    IN  \E i \in DOMAIN S :
            /\ i + 3 <= Len(S)
            /\ S[i].ev = "batch" /\ S[i].res = "integrity" /\ Len(S[i].ixs) = 3
            /\ S[i + 1].res = "ok" /\ S[i + 2].res = "integrity"
            /\ S[i + 3].ev = "row"
            /\ run.db[S[i + 1].ids[1]] # initial[S[i + 1].ids[1]]

----------------------------------------------------------------------------
(* C3 *)

BothReturned == run.pc = "done" /\ twin.pc = "done"

\* no payload row writes the name that the foreign row holds
NoCollisionWithForeign ==
    \A i \in DOMAIN payload :
        "name" \in Eff(i) => payload[i].name # initial[ForeignId].name

----------------------------------------------------------------------------
(* C7 *)

\* C7 as stated: the call never ends with an exception.
C7_NeverAborts == run.pc # "raised"

\* C7 amended: the call ends with an exception only for a payload item without
\* id or for a statement failure that is no integrity violation; an integrity
\* violation never ends it, and while statements remain the session is fit to
\* execute the next one.
C7_OnlyNonIntegrityAborts ==
    /\ run.pc = "raised" =>
           \/ run.exc = "ValueError" /\ ~has_id
           \/ run.exc = "DBAPIError" /\ Last(run.log).res = "error"
    /\ run.pc = "batch" => run.queue # <<>> /\ run.sess = "clean"
    /\ run.pc = "fallback" => run.fb # <<>> /\ run.sess = "clean"
    /\ run.pc = "done" =>
           \A i \in DOMAIN run.log : run.log[i].res # "error"

\* the call returned although every row of a three-row payload failed, the
\* chunk statement and row statements violating the constraint
C7_Witness ==
    /\ run.pc = "done" /\ Len(payload) = 3
    /\ run.updated = <<>> /\ Len(run.errors) = 3
    /\ \E i \in DOMAIN run.errors : run.errors[i].error = IntegrityMsg
    /\ \E i \in DOMAIN run.log : run.log[i].ev = "batch" /\ run.log[i].res = "integrity"

----------------------------------------------------------------------------
(* C8 *)

\* C8: a payload row with an empty effective field set is in no statement,
\* set-based or row-level; when the call returns it has its errors entry "no
\* fields to update"; a payload of such rows only (or an empty one) causes no
\* statement, no commit and no rollback.
C8_EmptyRowsNeverSent ==
    /\ \A i \in DOMAIN run.log :
           IsStmt(run.log[i]) =>
               \A k \in DOMAIN run.log[i].ixs : Eff(run.log[i].ixs[k]) # {}
    /\ run.pc = "done" =>
           \A id \in Ids :
               Cardinality({i \in DOMAIN run.errors :
                               run.errors[i] = [id |-> id, error |-> EmptyMsg]})
                 = Cardinality({i \in DOMAIN payload :
                                   payload[i].id = id /\ Eff(i) = {}})
    /\ (\A i \in DOMAIN payload : Eff(i) = {}) =>
           run.log = <<>> /\ run.db = initial /\ run.pc \in {"start", "done", "raised"}

\* a returned call whose payload held a row with nothing to update next to a
\* row that was written and committed
C8_Witness ==
    /\ run.pc = "done"
    /\ \E i, j \in DOMAIN payload : Eff(i) = {} /\ Eff(j) # {}
    /\ \E i \in DOMAIN run.log : run.log[i].ev = "commit"
    /\ \E i \in DOMAIN run.errors : run.errors[i].error = EmptyMsg

----------------------------------------------------------------------------
(* C9 *)

\* C9: every statement covers only rows whose effective field set is the
\* statement's column set, so rows with different field sets are never in one
\* statement; and every row with fields to write is in exactly one set-based
\* statement once the call has returned.
C9_OneFieldSetPerStatement ==
    /\ \A i \in DOMAIN run.log :
           IsStmt(run.log[i]) =>
               \A k \in DOMAIN run.log[i].ixs : Eff(run.log[i].ixs[k]) = run.log[i].cols
    /\ run.pc = "done" =>
           \A r \in DOMAIN payload :
               Eff(r) # {} =>
                   Cardinality({i \in DOMAIN run.log :
                                   run.log[i].ev = "batch" /\ r \in Range(run.log[i].ixs)}) = 1

\* a returned call that issued set-based statements for three different
\* field sets
C9_Witness ==
    /\ run.pc = "done"
    /\ Cardinality({run.log[i].cols : i \in {j \in DOMAIN run.log : run.log[j].ev = "batch"}}) = 3

----------------------------------------------------------------------------
(* C10 *)

\* C10: every chunk holds at least one row and, when 1 + n is at most 20,000,
\* (1 + n) x chunk size stays within 20,000 and so does the number of bound
\* parameters of the chunk's statement, the tenant parameter included.
C10_ParamCeiling ==
    \A k \in DOMAIN chunk_sizes :
        /\ chunk_sizes[k] >= 1
        /\ 1 + group_fields <= _MAX_QUERY_PARAMS =>
               /\ (1 + group_fields) * chunk_sizes[k] <= _MAX_QUERY_PARAMS
               /\ ParamCount(chunk_sizes[k], group_fields, has_ws) <= _MAX_QUERY_PARAMS

----------------------------------------------------------------------------
(* C11 *)

\* the columns the contract gives payload row i: the candidate fields (every
\* field but id, or the explicit list) whose value is non-null, or all of
\* them when include_none is set
Written(i) ==
    LET C == IF update_fields = UNSET THEN Fields ELSE update_fields
    IN  {f \in C : payload[i][f] # None \/ include_none}

\* C11: every statement sets, for each of its rows, exactly the columns of
\* Written; every reported update carries exactly those columns with the
\* row's values; a stored value differs from the initial one only where a
\* payload row for that id has the column in Written and holds that value;
\* and with include_none false no stored column ever turns null.
C11_WrittenColumns ==
    LET ups == run.updated \o run.fbUpdated
    IN  /\ \A i \in DOMAIN run.log :
               IsStmt(run.log[i]) =>
                   \A k \in DOMAIN run.log[i].ixs :
                       run.log[i].cols = Written(run.log[i].ixs[k])
        /\ \A u \in DOMAIN ups :
               \E i \in DOMAIN payload :
                   /\ payload[i].id = ups[u].id
                   /\ DOMAIN ups[u].vals = Written(i)
                   /\ \A f \in Written(i) : ups[u].vals[f] = payload[i][f]
        /\ \A id \in Ids, f \in Fields :
               (initial[id] # Absent /\ run.tx[id][f] # initial[id][f]) =>
                   \E i \in DOMAIN payload :
                       /\ payload[i].id = id /\ f \in Written(i)
                       /\ payload[i][f] = run.tx[id][f]
        /\ ~include_none =>
               \A id \in Ids, f \in Fields :
                   initial[id] # Absent => run.tx[id][f] # None /\ run.db[id][f] # None

\* a returned call with include_none false whose payload row carried a null
\* name and a qty: the qty is stored, the name is the one stored before
C11_Witness ==
    /\ run.pc = "done" /\ ~include_none /\ update_fields = UNSET
    /\ \E i \in DOMAIN payload :
        /\ payload[i].name = None /\ payload[i].qty # None
        /\ OwnRow(payload[i].id)
        /\ run.updated = <<[id |-> payload[i].id, vals |-> [f \in {"qty"} |-> payload[i].qty]]>>
        /\ run.db[payload[i].id].qty = payload[i].qty
        /\ run.db[payload[i].id].name = initial[payload[i].id].name

----------------------------------------------------------------------------
(* C12 *)

\* the call reported that it set column c of row id, a row of the caller's
\* workspace that held a value there, to null
NulledBy(id, c) ==
    /\ include_none /\ run.pc = "done"
    /\ OwnRow(id) /\ initial[id][c] # None
    /\ Reported(run.updated, id, c) /\ Latest(run.updated, id, c) = None

\* C12: once bulk_update with include_none has written a null into a non-null
\* column of a row of the caller's workspace, the stored column is null, a
\* search of that workspace with an is_not_empty clause on the column does not
\* return the row, and one with an is_empty clause returns it.
C12_NullRoundTrip ==
    \A id \in Ids, c \in Fields :
        NulledBy(id, c) =>
            /\ run.db[id][c] = None
            /\ (found.pc # "ready" /\ request.filter[1].column = c) =>
                   /\ request.filter[1].operator = "is_not_empty" =>
                          ~(found.pc = "returned" /\ id \in Range(found.response.items))
                   /\ request.filter[1].operator = "is_empty" =>
                          found.pc = "returned" /\ id \in Range(found.response.items)

----------------------------------------------------------------------------
(* C13 *)

\* n is the least number of pages of page_size rows that hold total rows
IsCeiling(n, total, page_size) ==
    /\ n \in Nat
    /\ n * page_size >= total
    /\ \A m \in 0..(n - 1) : m * page_size < total

\* C13: for every total >= 0 and every page_size in 1..100 the response made
\* by SearchResponse.create has total_pages = ceil(total / page_size), which
\* is 0 when total is 0.
C13_TotalPages ==
    found.pc = "returned" =>
        /\ IsCeiling(found.response.total_pages, found.response.total,
                     found.response.page_size)
        /\ found.response.total = 0 => found.response.total_pages = 0

\* a response for a total that is not a multiple of the page size: the last
\* page is partly filled
C13_Witness ==
    /\ found.pc = "returned"
    /\ found.response.total > found.response.page_size
    /\ found.response.total % found.response.page_size # 0
    /\ found.response.total_pages * found.response.page_size > found.response.total

----------------------------------------------------------------------------
(* C14 *)

\* the pages the client holds, the one just returned last
PagesRead == Append(pages, found.response)

RECURSIVE Concatenated(_)
\* the items of a list of pages, in the order the pages were read
Concatenated(ps) ==
    IF ps = <<>> THEN <<>> ELSE Head(ps).items \o Concatenated(Tail(ps))

\* C14: for a fixed request over an unchanged table, a page and the page
\* after it share no item, and the pages 1..total_pages read one after the
\* other list every matching row exactly once, in the order the request's
\* sort clauses ask for (also when rows tie on the sort columns).
C14_Pagination ==
    found.pc = "returned" =>
        /\ \A p \in 1..(Len(PagesRead) - 1) :
               Range(PagesRead[p].items) \cap Range(PagesRead[p + 1].items) = {}
        /\ found.response.page >= found.response.total_pages =>
               Concatenated(PagesRead) \in
                   Orderings(run.db, Selected(run.db, found.query), found.query.order)

----------------------------------------------------------------------------
(* C15 *)

\* clause k of the request names a field that is in neither simple_columns
\* nor join_columns
UnknownField(k) ==
    /\ k \in DOMAIN request.filter
    /\ request.filter[k].column \notin config.simple_columns
    /\ request.filter[k].column \notin DOMAIN config.join_columns

\* C15: a search whose filter list has a clause on a field that is in
\* neither simple_columns nor join_columns ends with InvalidFilterFieldError,
\* carrying that field and the entity name, as the error its caller receives.
C15_InvalidFilterField ==
    (found.pc # "ready" /\ \E k \in DOMAIN request.filter : UnknownField(k)) =>
        /\ found.pc = "raised"
        /\ \E k \in DOMAIN request.filter :
               /\ UnknownField(k)
               /\ found.exc = InvalidFilterFieldError(request.filter[k].column, model_name)

----------------------------------------------------------------------------
(* C16 *)

\* the pieces of a comma-separated value
Tokens(value) == LET ps == split(value, ",") IN [k \in DOMAIN ps |-> strip(ps[k])]

\* the request has one filter clause, a list operator on an integer column
\* with several tokens that are all integers, and no free text
IntegerListRequest ==
    /\ Len(request.filter) = 1 /\ request.search = <<>>
    /\ request.filter[1].operator \in ListOperators
    /\ ResolveColumn(config, request.filter[1].column) # None
    /\ ColumnType[ResolveColumn(config, request.filter[1].column)] = "int"
    /\ Len(Tokens(request.filter[1].value)) > 1
    /\ \A k \in DOMAIN Tokens(request.filter[1].value) :
           int(Tokens(request.filter[1].value)[k]).ok

\* the rows the request selects when its clause is replaced by clause c
RowsWith(column, operator, value) ==
    LET b == BuildQuery(config,
                        [request EXCEPT !.filter = <<[column |-> column, value |-> value,
                                                      operator |-> operator]>>],
                        has_ws)
    IN  IF b.ok /\ ~QueryFaulty(b.query) THEN Selected(run.db, b.query) ELSE {}

\* C16: an in clause with several integer tokens on an integer column is
\* accepted and returns the rows that the equals clauses of its tokens return
\* together; a not_in clause returns the other rows whose column is not null.
C16_InIsDisjunction ==
    (found.pc # "ready" /\ IntegerListRequest) =>
        LET c == request.filter[1]
            any == UNION {RowsWith(c.column, "equals", Tokens(c.value)[k])
                            : k \in DOMAIN Tokens(c.value)}
            nonnull == UNION {RowsWith(c.column, op, <<"1">>)
                                : op \in {"equals", "not_equals"}}
        IN  /\ found.pc = "returned"
            /\ Range(found.response.items) =
                   IF c.operator = "in" THEN any ELSE nonnull \ any

----------------------------------------------------------------------------
(* C17 *)

\* clause k of the request is an in or not_in clause on a column of the
\* configuration, and one of its tokens does not convert to the column's type
BadToken(k) ==
    /\ k \in DOMAIN request.filter
    /\ request.filter[k].operator \in ListOperators
    /\ ResolveColumn(config, request.filter[k].column) # None
    /\ \E t \in DOMAIN Tokens(request.filter[k].value) :
           ~_convert_filter_value(ResolveColumn(config, request.filter[k].column),
                                  Tokens(request.filter[k].value)[t],
                                  request.filter[k].column).ok

\* the free-text stage, which runs before the filters, rejects the request
SearchRejected == request.search # <<>> /\ config.searchable_columns = <<>>

\* C17 as stated: a search with an in or not_in clause one of whose tokens
\* does not convert always ends with FilterValueError, and no statement is
\* executed.
C17_BadTokenFails ==
    (found.pc # "ready" /\ \E k \in DOMAIN request.filter : BadToken(k)) =>
        /\ found.pc = "raised"
        /\ found.executed = 0
        /\ found.exc.kind = "FilterValueError"

\* C17, amended: such a search always raises and executes no statement, so
\* no subset of the tokens is applied; the error is FilterValueError unless
\* the request carries free text and the configuration has no searchable
\* columns, in which case it is the InvalidSearchFieldError of the earlier
\* stage.
C17_BadTokenFailsUnlessSearchRejected ==
    (found.pc # "ready" /\ \E k \in DOMAIN request.filter : BadToken(k)) =>
        /\ found.pc = "raised"
        /\ found.executed = 0
        /\ found.query.conds = <<>>
        /\ IF SearchRejected
           THEN found.exc = InvalidSearchFieldError(model_name)
           ELSE found.exc.kind = "FilterValueError"

\* an in clause on the integer column whose first token converts and whose
\* second does not has ended the search with FilterValueError
C17_Witness ==
    /\ found.pc = "raised" /\ found.executed = 0
    /\ found.exc.kind = "FilterValueError" /\ found.exc.field_name = "qty"
    /\ Len(request.filter) = 1 /\ BadToken(1)
    /\ request.filter[1].operator = "in"
    /\ int(Tokens(request.filter[1].value)[1]).ok
    /\ ~int(Tokens(request.filter[1].value)[2]).ok

----------------------------------------------------------------------------
(* C18 *)

\* the request is one is_empty or is_not_empty clause on a column of the
\* configuration, without free text
EmptinessRequest ==
    /\ Len(request.filter) = 1 /\ request.search = <<>>
    /\ request.filter[1].operator \in EmptinessOperators
    /\ ResolveColumn(config, request.filter[1].column) # None

\* the column of row id is null or the empty string
IsEmpty(id, column) ==
    \/ ColumnValue(run.db, id, column).null
    \/ ColumnValue(run.db, id, column).v = <<>>

\* C18: whatever the type of the column and whatever string the clause
\* carries as value, an is_empty clause selects, of the rows the request
\* selects without it, those whose column is null or the empty string, and
\* an is_not_empty clause the others.
C18_EmptinessOperators ==
    (found.pc # "ready" /\ EmptinessRequest) =>
        /\ found.pc = "returned"
        /\ LET column == ResolveColumn(config, request.filter[1].column)
               scope == Selected(run.db, [found.query EXCEPT !.conds = <<>>])
           IN  Range(found.response.items) =
                   IF request.filter[1].operator = "is_empty"
                   THEN {id \in scope : IsEmpty(id, column)}
                   ELSE {id \in scope : ~IsEmpty(id, column)}

----------------------------------------------------------------------------
(* C19 *)

\* the rows that satisfy the free text, the filter clauses and the joins of
\* the executed query, whatever workspace they belong to
MatchingAnyTenant == Selected(run.db, [found.query EXCEPT !.ws = NoFilter])

NegatedOperators == {"not_equals", "does_not_contain", "not_in", "is_not_empty"}

\* C19: a search called with a workspace id on an entity with a workspace_id
\* column returns only rows of that workspace, and total is the number of
\* rows of that workspace that satisfy the request, for every free text,
\* filter list and sort list.
C19_TenantIsolation ==
    (found.pc = "returned" /\ request.workspace_id # NoFilter /\ has_ws) =>
        /\ \A id \in Range(found.response.items) :
               run.db[id] # Absent /\ run.db[id].ws = request.workspace_id
        /\ found.response.total =
               Cardinality({id \in MatchingAnyTenant :
                               run.db[id].ws = request.workspace_id})

\* a search with a negated clause on a joined column returned rows of the
\* caller's workspace while a row of another workspace satisfies the clauses
C19_Witness ==
    /\ found.pc = "returned" /\ request.workspace_id # NoFilter /\ has_ws
    /\ found.response.total > 0
    /\ Len(request.filter) = 2
    /\ request.filter[1].column \in DOMAIN config.join_columns
    /\ \A k \in DOMAIN request.filter : request.filter[k].operator \in NegatedOperators
    /\ \E id \in MatchingAnyTenant : run.db[id].ws # request.workspace_id

----------------------------------------------------------------------------
(* C20 *)

\* the request is one filter clause, without free text, on an integer column
\* of the configuration, and the clause's value is not an integer
UnconvertibleRequest ==
    /\ Len(request.filter) = 1 /\ request.search = <<>>
    /\ ResolveColumn(config, request.filter[1].column) # None
    /\ ColumnType[ResolveColumn(config, request.filter[1].column)] = "int"
    /\ ~int(request.filter[1].value).ok

\* C20: when a filter value does not convert to the type of its column, the
\* caller of search receives FilterValueError carrying the field name, the
\* raw value and the name of the expected type ("int" for an integer column).
C20_TypedFilterValueError ==
    (found.pc # "ready" /\ UnconvertibleRequest) =>
        /\ found.pc = "raised"
        /\ found.exc = FilterValueError(request.filter[1].column,
                                        request.filter[1].value, "int")

----------------------------------------------------------------------------
(* Specification of one search call with sort clauses on simple, joined and *)
(* unknown columns, under configurations with and without an explicit list *)
(* of sortable columns and with a joined column among the searchable ones  *)

SortColumns == {"name", "qty", "owner", "ghost", "bogus"}

SortClauses == [column : SortColumns, direction : {"asc", "desc"}]

OrderedConfigs ==
    {SearchConfig(SimpleColumns, JoinColumns, s, o)
        : s \in {<<>>, <<"name">>, <<"owner">>}, o \in {{}, {"name"}}}

OrderedFilters ==
    {<<>>,
     <<[column |-> "name", value |-> <<"a">>, operator |-> "not_equals"]>>,
     <<[column |-> "owner", value |-> <<"a">>, operator |-> "contains"]>>,
     <<[column |-> "owner", value |-> <<"a">>, operator |-> "contains"],
       [column |-> "owner", value |-> <<"c">>, operator |-> "not_equals"]>>,
     <<[column |-> "ghost", value |-> <<"a">>, operator |-> "equals"]>>}

SortInit ==
    /\ NoBulkUpdate
    /\ \E t \in SearchedTables : initial = t[1] /\ has_ws = t[2]
    /\ run = Stored(initial)
    /\ config \in OrderedConfigs
    /\ request \in [search : {<<>>, <<"a">>}, page : {0}, page_size : {0},
                    filter : OrderedFilters, sort : SeqsUpTo(SortClauses, MaxSorts),
                    workspace_id : {NoFilter, workspace_id}]
    /\ found = Ready
    /\ pages = <<>>
    /\ NoServices

SortNext == SearchReturns \/ SearchRaises

SortSpec == SortInit /\ [][SortNext]_vars

----------------------------------------------------------------------------
(* C21 *)

\* the number of times target t is attached to the executed query
TimesJoined(t) == Cardinality({k \in DOMAIN found.query.joins : found.query.joins[k] = t})

\* the clauses of the request that name a column of join target t
ClausesOn(t) ==
    {<<"filter", k>> : k \in {i \in DOMAIN request.filter :
                                 /\ request.filter[i].column \in DOMAIN config.join_columns
                                 /\ config.join_columns[request.filter[i].column].join = t}}
    \cup
    {<<"sort", k>> : k \in {i \in DOMAIN request.sort :
                               /\ request.sort[i].column \in DOMAIN config.join_columns
                               /\ config.join_columns[request.sort[i].column].join = t}}

\* C21: within one search request each join target is attached to the query
\* at most once, however many filter and sort clauses name columns of that
\* target and in whatever order.
C21_JoinedAtMostOnce ==
    found.pc # "ready" =>
        \A t \in {config.join_columns[n].join : n \in DOMAIN config.join_columns} :
            TimesJoined(t) <= 1

\* a search that returned with two filter clauses and two sort clauses on
\* columns of the same target, which is attached once
C21_Witness ==
    /\ found.pc = "returned"
    /\ \E k1, k2 \in DOMAIN request.filter : k1 # k2 /\ {<<"filter", k1>>, <<"filter", k2>>} \subseteq ClausesOn("owners")
    /\ \E k1, k2 \in DOMAIN request.sort : k1 # k2 /\ {<<"sort", k1>>, <<"sort", k2>>} \subseteq ClausesOn("owners")
    /\ TimesJoined("owners") = 1

----------------------------------------------------------------------------
(* C22 *)

\* the position of the last chunk statement issued before position i of the
\* log, 0 when there is none
ChunkBefore(i) ==
    LET js == {j \in 1..(i - 1) : run.log[j].ev = "batch"}
    IN  IF js = {} THEN 0 ELSE CHOOSE j \in js : \A k \in js : k <= j

\* the positions of the row-level statements issued after position j and
\* before position i, in order
RowsBetween(j, i) == SortedSeq({k \in (j + 1)..(i - 1) : run.log[k].ev = "row"})

\* the row-level statement at position k has been settled before the next
\* statement: committed when it updated its row, rolled back when it
\* violated a constraint, and nothing is open when it matched no row
RowSettled(k) ==
    /\ run.log[k].res = "ok" =>
           k < Len(run.log) /\ run.log[k + 1].ev = "commit"
    /\ run.log[k].res = "integrity" =>
           k < Len(run.log) /\ run.log[k + 1].ev = "rollback"
    /\ run.log[k].res \in {"ok", "none", "integrity"}

\* the chunk whose statement is at position j is finished at position i:
\* its statement was committed right away, or it was rolled back right away
\* and every row of the chunk was then retried, in order, and settled
ChunkFinished(j, i) ==
    \/ /\ run.log[j].res = "ok"
       /\ i = j + 2 /\ run.log[j + 1].ev = "commit"
    \/ /\ run.log[j].res = "integrity"
       /\ run.log[j + 1].ev = "rollback"
       /\ LET rows == RowsBetween(j, i)
          IN  /\ [k \in DOMAIN rows |-> run.log[rows[k]].ixs[1]] = run.log[j].ixs
              /\ \A k \in DOMAIN rows : RowSettled(rows[k])

\* C22: within one bulk_update call a chunk's statement is executed only
\* after the chunk before it has been committed, or rolled back and retried
\* row by row to the end; and the first row-level statement of a chunk comes
\* right after the rollback of that chunk's failed statement.
C22_StrictSequence ==
    \A i \in DOMAIN run.log :
        /\ (run.log[i].ev = "batch" /\ ChunkBefore(i) # 0) =>
               ChunkFinished(ChunkBefore(i), i)
        /\ run.log[i].ev = "row" =>
               LET j == ChunkBefore(i)
               IN  /\ j # 0 /\ run.log[j].res = "integrity"
                   /\ run.log[j + 1].ev = "rollback"
                   /\ RowsBetween(j, i) = <<>> => i = j + 2
                   /\ run.log[i].ixs[1] \in Range(run.log[j].ixs)

\* a call that returned after a chunk whose statement failed, was rolled
\* back and retried row by row, and a later chunk whose statement succeeded
C22_Witness ==
    /\ run.pc = "done"
    /\ \E j, i \in DOMAIN run.log :
           /\ j < i /\ ChunkBefore(i) = j
           /\ run.log[j].ev = "batch" /\ run.log[j].res = "integrity"
           /\ run.log[i].ev = "batch" /\ run.log[i].res = "ok"
           /\ Len(RowsBetween(j, i)) >= 2

----------------------------------------------------------------------------
(* auth/repository.py: WorkspaceRepository.delete and add_user_to_workspace, *)
(* each call on a session of its own over the tables auth.user,             *)
(* auth.workspace and auth.workspace_user (READ COMMITTED: a statement sees *)
(* what is committed and what its own transaction wrote)                    *)

MaxSessions == 2

Sessions == 1..MaxSessions

\* the rows of auth.user
StoredUsers ==
    <<[id |-> "u1", email |-> "a@x"], [id |-> "u2", email |-> "b@x"],
      [id |-> "u3", email |-> "c@x"]>>

UserIds == {StoredUsers[k].id : k \in DOMAIN StoredUsers}

\* a user id no row of auth.user carries
UnknownUser == "u9"

\* the workspace ids a call names; workspace 2 is not stored
WorkspaceIds == {1, 2}

NoWorkspace == "<no workspace>"

Membership(w, u, role) == [workspace_id |-> w, user_id |-> u, role |-> role]

\* the auth schema before the calls: workspace 1 owned by u1, with or without
\* the member u2; u3 neither owns nor belongs to it
AuthStores ==
    {[users |-> StoredUsers,
      owner |-> (1 :> "u1") @@ (2 :> NoWorkspace),
      members |-> m]
        : m \in {<<Membership(1, "u1", "OWNER")>>,
                 <<Membership(1, "u1", "OWNER"), Membership(1, "u2", "MEMBER")>>}}

\* the writes of an open transaction: membership rows deleted (by key),
\* workspaces deleted, membership rows inserted
NoTx == [deleted |-> {}, dropped |-> {}, inserted |-> <<>>]

KeyOf(m) == <<m.workspace_id, m.user_id>>

\* the store as a statement of a transaction with writes tx sees it
Visible(db, tx) ==
    [db EXCEPT !.members = SelectSeq(db.members,
                                     LAMBDA m : /\ KeyOf(m) \notin tx.deleted
                                                /\ m.workspace_id \notin tx.dropped)
                               \o tx.inserted,
               !.owner = [w \in DOMAIN db.owner |->
                            IF w \in tx.dropped THEN NoWorkspace ELSE db.owner[w]]]

\* AsyncSession.commit(): the writes become the stored state; deleting a
\* workspace takes its membership rows along (ON DELETE CASCADE)
Committed(db, tx) == Visible(db, tx)

IsMember(db, w, u) ==
    \E k \in DOMAIN db.members :
        db.members[k].workspace_id = w /\ db.members[k].user_id = u

\* repository.py 27-33: the user owns the workspace or is one of its members
workspace_access_filter(db, w, user_id) ==
    /\ db.owner[w] # NoWorkspace
    /\ db.owner[w] = user_id \/ IsMember(db, w, user_id)

\* a call of the repository built for user_id: op is "delete" or "add"
Call(op, user_id, w, add_user_id) ==
    [op |-> op, user_id |-> user_id, workspace_id |-> w, add_user_id |-> add_user_id,
     pc |-> op, tx |-> NoTx, rowcount |-> 0, result |-> "", exc |-> ""]

NoCall == [Call("none", "", 0, "") EXCEPT !.pc = "off"]

RepositoryCalls ==
    {Call("delete", u, w, "") : u \in UserIds, w \in WorkspaceIds}
    \cup {Call("add", u, w, a) : u \in UserIds, w \in WorkspaceIds,
                                  a \in UserIds \cup {UnknownUser}}
    \cup {NoCall}

\* the rest of the model is not in use
NoTable == initial = PlainTable /\ has_ws = FALSE /\ run = Idle

WorkspaceInit ==
    /\ NoBulkUpdate /\ NoTable /\ NoSearch
    /\ client = <<>> /\ cache = <<>>
    /\ \E db \in AuthStores, calls \in [Sessions -> RepositoryCalls] :
           auth = [db |-> db, began |-> db, calls |-> calls]

\* the call of session s moves to c, the stored state to db
Moves(s, c, db) ==
    /\ auth' = [auth EXCEPT !.calls[s] = c, !.db = db]
    /\ UNCHANGED <<inputs, run, twin, arith, finder, client, cache>>

\* repository.py 117-118: DELETE FROM workspace_user WHERE workspace_id = :id
DeleteMemberships(s) ==
    LET c == auth.calls[s]
        seen == Visible(auth.db, c.tx)
        keys == {KeyOf(seen.members[k]) : k \in {i \in DOMAIN seen.members :
                     seen.members[i].workspace_id = c.workspace_id}}
    IN  /\ c.pc = "delete"
        /\ \A o \in Sessions \ {s} :
               \A k \in DOMAIN auth.calls[o].tx.inserted :
                   KeyOf(auth.calls[o].tx.inserted[k]) \notin keys
        /\ Moves(s, [c EXCEPT !.pc = "delete_workspace", !.tx.deleted = @ \cup keys],
                 auth.db)

\* repository.py 120-121: DELETE FROM workspace WHERE id = :id AND <access>
DeleteWorkspace(s) ==
    LET c == auth.calls[s]
        seen == Visible(auth.db, c.tx)
        hit == workspace_access_filter(seen, c.workspace_id, c.user_id)
    IN  /\ c.pc = "delete_workspace"
        /\ \A o \in Sessions \ {s} :
               /\ c.workspace_id \notin auth.calls[o].tx.dropped
               /\ \A k \in DOMAIN auth.calls[o].tx.inserted :
                      auth.calls[o].tx.inserted[k].workspace_id # c.workspace_id
        /\ Moves(s, [c EXCEPT !.pc = "commit_delete",
                              !.rowcount = IF hit THEN 1 ELSE 0,
                              !.tx.dropped = IF hit THEN @ \cup {c.workspace_id} ELSE @],
                 auth.db)

\* repository.py 123-124
CommitDelete(s) ==
    LET c == auth.calls[s]
    IN  /\ c.pc = "commit_delete"
        /\ Moves(s, [c EXCEPT !.pc = "returned", !.tx = NoTx,
                              !.result = IF c.rowcount > 0 THEN "True" ELSE "False"],
                 Committed(auth.db, c.tx))

\* the call ends with an exception and its transaction is dropped
Raising(c, exc) == [c EXCEPT !.pc = "raised", !.exc = exc, !.tx = NoTx]

\* repository.py 128-134
CheckUser(s) ==
    LET c == auth.calls[s]
        seen == Visible(auth.db, c.tx)
    IN  /\ c.pc = "add"
        /\ Moves(s, IF \E k \in DOMAIN seen.users : seen.users[k].id = c.add_user_id
                    THEN [c EXCEPT !.pc = "check_workspace"]
                    ELSE Raising(c, "404 User not found."),
                 auth.db)

\* repository.py 136-145
CheckWorkspace(s) ==
    LET c == auth.calls[s]
        seen == Visible(auth.db, c.tx)
    IN  /\ c.pc = "check_workspace"
        /\ Moves(s, IF workspace_access_filter(seen, c.workspace_id, c.user_id)
                    THEN [c EXCEPT !.pc = "check_membership"]
                    ELSE Raising(c, "404 Workspace not found or access denied."),
                 auth.db)

\* repository.py 147-159
CheckMembership(s) ==
    LET c == auth.calls[s]
        seen == Visible(auth.db, c.tx)
    IN  /\ c.pc = "check_membership"
        /\ Moves(s, IF IsMember(seen, c.workspace_id, c.add_user_id)
                    THEN Raising(c, "409 User is already a member of this workspace.")
                    ELSE [c EXCEPT !.pc = "insert"],
                 auth.db)

\* repository.py 161-169, models.py 99-104: the INSERT is refused when the
\* workspace is gone (foreign key) or a row with the same workspace_id and
\* user_id is stored (primary key)
Inserted(db, c) ==
    IF db.owner[c.workspace_id] = NoWorkspace \/ IsMember(db, c.workspace_id, c.add_user_id)
    THEN Raising(c, "IntegrityError")
    ELSE [c EXCEPT !.pc = "commit_add",
                   !.tx.inserted = Append(@, Membership(c.workspace_id, c.add_user_id,
                                                        "MEMBER"))]

\* repository.py 169: the statement waits while another transaction holds an
\* uncommitted write of the same key or of the workspace
InsertMembership(s) ==
    LET c == auth.calls[s]
        key == <<c.workspace_id, c.add_user_id>>
    IN  /\ c.pc = "insert"
        /\ \A o \in Sessions \ {s} :
               /\ key \notin auth.calls[o].tx.deleted
               /\ c.workspace_id \notin auth.calls[o].tx.dropped
               /\ \A k \in DOMAIN auth.calls[o].tx.inserted :
                      KeyOf(auth.calls[o].tx.inserted[k]) # key
        /\ Moves(s, Inserted(Visible(auth.db, c.tx), c), auth.db)

\* repository.py 170-171
CommitAdd(s) ==
    LET c == auth.calls[s]
    IN  /\ c.pc = "commit_add"
        /\ Moves(s, [c EXCEPT !.pc = "returned", !.tx = NoTx, !.result = "True"],
                 Committed(auth.db, c.tx))

WorkspaceNext ==
    \E s \in Sessions :
        \/ DeleteMemberships(s)
        \/ DeleteWorkspace(s)
        \/ CommitDelete(s)
        \/ CheckUser(s)
        \/ CheckWorkspace(s)
        \/ CheckMembership(s)
        \/ InsertMembership(s)
        \/ CommitAdd(s)

WorkspaceSpec == WorkspaceInit /\ [][WorkspaceNext]_vars

----------------------------------------------------------------------------
(* C23 *)

\* session s is the only one with a call, a delete by a user who, when the
\* call began, neither owned the workspace nor was a member of it
StrangerDeletes(s) ==
    /\ auth.calls[s].op = "delete"
    /\ \A o \in Sessions \ {s} : auth.calls[o] = NoCall
    /\ ~workspace_access_filter(auth.began, auth.calls[s].workspace_id,
                                auth.calls[s].user_id)

\* C23: WorkspaceRepository.delete called by a user who neither owns nor is a
\* member of the workspace returns false and leaves the stored state as it
\* was: the workspace row and all its membership rows are still there.
C23_StrangerDeleteChangesNothing ==
    \A s \in Sessions :
        (StrangerDeletes(s) /\ auth.calls[s].pc = "returned") =>
            /\ auth.calls[s].result = "False"
            /\ auth.db = auth.began

----------------------------------------------------------------------------
(* C24 *)

\* sort clause k names a column that is not eligible for ordering: it is not
\* listed in sortable_columns
Ineligible(k) ==
    /\ k \in DOMAIN request.sort
    /\ request.sort[k].column \notin config.sortable_columns

\* the stages that run before the sort clauses are looked at did not raise
ReachesSorting == SearchStage(config, request).ok /\ FilterStage(config, request).ok

\* C24: a search with a sort clause on a column that is not eligible for
\* ordering (unknown to the configuration, or a simple or joined column not
\* listed in sortable_columns) ends with InvalidSortFieldError carrying that
\* field and the entity name, and neither the count nor the page statement
\* is executed.
C24_InvalidSortField ==
    (found.pc # "ready" /\ ReachesSorting /\ \E k \in DOMAIN request.sort : Ineligible(k)) =>
        /\ found.pc = "raised"
        /\ found.executed = 0
        /\ \E k \in DOMAIN request.sort :
               /\ Ineligible(k)
               /\ found.exc = InvalidSortFieldError(request.sort[k].column, model_name)

----------------------------------------------------------------------------
(* C25 *)

\* the columns the executed query names in its free-text disjunction, its
\* conditions and its ORDER BY list
ReferencedColumns ==
    {found.query.search[k] : k \in DOMAIN found.query.search}
        \cup {found.query.conds[k].column : k \in DOMAIN found.query.conds}
        \cup {found.query.order[k].column : k \in DOMAIN found.query.order}

\* the join targets the configuration gives for column c
TargetsOf(c) ==
    {config.join_columns[n].join : n \in {m \in DOMAIN config.join_columns :
                                             config.join_columns[m].column = c}}

\* C25: in every query that search executes, each joined column named by a
\* filter clause, by the free-text search or by a sort clause has its join
\* target attached, so the count is never taken over an unjoined product:
\* it never exceeds the number of stored rows.
C25_JoinsAttached ==
    found.executed > 0 =>
        /\ \A c \in ReferencedColumns : TargetsOf(c) \subseteq Range(found.query.joins)
        /\ found.pc = "returned" =>
               found.response.total <= Cardinality({id \in DOMAIN run.db : run.db[id] # Absent})

----------------------------------------------------------------------------
(* C26 *)

\* the entries reported as updated so far, those of a fallback in progress
\* included
ReportedSoFar(s) == s.updated \o s.fbUpdated

\* the stored table and the session differ from the table the call found only
\* in columns that a payload row with the row's id has in its field set: rows
\* the payload does not name, and the id, the workspace and every other
\* column of the rows it names, are as they were
FrameKept ==
    \A id \in Ids :
        /\ (run.db[id] = Absent) = (initial[id] = Absent)
        /\ (run.tx[id] = Absent) = (initial[id] = Absent)
        /\ run.db[id].ws = initial[id].ws /\ run.tx[id].ws = initial[id].ws
        /\ \A f \in Fields :
               (\A i \in DOMAIN payload : payload[i].id # id \/ f \notin Written(i)) =>
                   run.db[id][f] = initial[id][f] /\ run.tx[id][f] = initial[id][f]

\* the entries a step adds to the report carry the values that are stored
\* for their row once the step's commit is done
ReportedAsStored ==
    \A u \in (Len(ReportedSoFar(run)) + 1)..Len(ReportedSoFar(run')) :
        \A f \in DOMAIN ReportedSoFar(run')[u].vals :
            run'.db[ReportedSoFar(run')[u].id][f] = ReportedSoFar(run')[u].vals[f]

\* C26: bulk_update changes nothing outside what the payload names: a row
\* whose id is not in the payload is unchanged, every column outside the
\* field set of an updated row (id and workspace_id included) keeps its
\* value, and the values reported in updated for a row are those stored for
\* it at the commit of the statement that wrote them.
C26_FrameAndReport == []FrameKept /\ [][ReportedAsStored]_vars

\* a returned call that changed the qty of a row and reported it, kept the
\* row's name, and left a row the payload does not name as it was
C26_Witness ==
    /\ run.pc = "done"
    /\ \E u \in DOMAIN run.updated :
           /\ DOMAIN run.updated[u].vals = {"qty"}
           /\ run.db[run.updated[u].id].qty = run.updated[u].vals.qty
           /\ run.db[run.updated[u].id].qty # initial[run.updated[u].id].qty
           /\ run.db[run.updated[u].id].name = initial[run.updated[u].id].name
    /\ \E id \in Ids :
           /\ initial[id] # Absent /\ initial[id].ws = workspace_id
           /\ \A i \in DOMAIN payload : payload[i].id # id
           /\ run.db[id] = initial[id]

----------------------------------------------------------------------------
(* create_user (core/services/superuser.py), called by the register route
   and by create_superuser: one session, one call at a time.  auth holds the
   users table, the DEBUG setting and the call. *)

\* calls of create_user in one run
MaxRegistrations == 3

Emails == {"a@x", "b@x"}

\* a row of auth.user: the id is a fresh uuid, the email has no unique
\* constraint
User(id, email) == [id |-> id, email |-> email]

NoRegistration ==
    [pc |-> "idle", email |-> None, exists |-> FALSE, result |-> None,
     before |-> <<>>, n |-> 0]

CreateUserInit ==
    /\ NoBulkUpdate /\ NoTable /\ NoSearch
    /\ client = <<>> /\ cache = <<>>
    /\ \E users \in {<<>>, <<User(1, "a@x")>>}, debug \in BOOLEAN :
           auth = [users |-> users, DEBUG |-> debug, call |-> NoRegistration]

\* the call moves to c, the users table to users
Registers(c, users) ==
    /\ auth' = [auth EXCEPT !.call = c, !.users = users]
    /\ UNCHANGED <<inputs, run, twin, arith, finder, client, cache>>

\* routers.py 35, superuser.py 44: create_user(db_session, data)
create_user(email) ==
    /\ auth.call.pc \in {"idle", "returned"}
    /\ auth.call.n < MaxRegistrations
    /\ Registers([pc |-> "select", email |-> email, exists |-> FALSE,
                  result |-> None, before |-> auth.users, n |-> auth.call.n + 1],
                 auth.users)

\* superuser.py 13: exists = scalar(select(User).where(User.email == data.email))
SelectExists ==
    /\ auth.call.pc = "select"
    /\ Registers([auth.call EXCEPT !.pc = "exists",
                      !.exists = \E u \in DOMAIN auth.users :
                                     auth.users[u].email = auth.call.email],
                 auth.users)

\* superuser.py 14-17: the return is inside "if settings.DEBUG"
ReturnNone ==
    /\ auth.call.pc = "exists"
    /\ auth.call.exists /\ auth.DEBUG
    /\ Registers([auth.call EXCEPT !.pc = "returned", !.result = None], auth.users)

\* superuser.py 19-32: the user is added, committed and returned
AddUser ==
    /\ auth.call.pc = "exists"
    /\ ~(auth.call.exists /\ auth.DEBUG)
    /\ LET user == User(Len(auth.users) + 1, auth.call.email)
       IN  Registers([auth.call EXCEPT !.pc = "returned", !.result = user],
                     Append(auth.users, user))

CreateUserNext ==
    \/ \E email \in Emails : create_user(email)
    \/ SelectExists
    \/ ReturnNone
    \/ AddUser

CreateUserSpec == CreateUserInit /\ [][CreateUserNext]_vars

----------------------------------------------------------------------------
(* C27 *)

\* C27: create_user never stores a second user with an email that already
\* exists: a call that finds a user with data.email stored adds no row and
\* returns None, whatever the value of DEBUG.
C27_NoSecondUser ==
    (auth.call.pc = "returned" /\ auth.call.exists) =>
        /\ auth.users = auth.call.before
        /\ auth.call.result = None

----------------------------------------------------------------------------
(* BaseAPIClient (api_client.py): one client, its aiohttp session and its
   semaphore, and concurrent fetch tasks on one event loop.  A task keeps the
   loop between two awaits, so a step runs from one await to the next. *)

\* largest max_concurrent_requests
MaxConcurrent == 2
\* concurrent fetch calls
MaxFetches == 3

FetchTasks == 1..MaxFetches
\* "post" and "get" are methods of aiohttp.ClientSession, "fetch" is not
Methods == {"post", "get", "fetch"}
SessionMethods == {"post", "get"}

NoFetch == [pc |-> "idle", method |-> None, exc |-> None]

\* asyncio.Semaphore: acquire waits while no permit is left and takes one,
\* release gives one back
locked(value) == value = 0
acquire(value) == value - 1

\* a release that gives no permit back
release_lost(value) == value

release(value) == value + 1

\* api_client.py 13-15: no session, max_concurrent_requests permits
ClientInit ==
    /\ NoBulkUpdate /\ NoTable /\ NoSearch
    /\ auth = <<>> /\ cache = <<>>
    /\ \E n \in 1..MaxConcurrent :
           client = [max_concurrent_requests |-> n, _semaphore |-> n,
                     _session |-> None, tasks |-> [t \in FetchTasks |-> NoFetch]]

\* the client moves to c
ClientMoves(c) ==
    /\ client' = c
    /\ UNCHANGED <<inputs, run, twin, arith, finder, auth, cache>>

\* api_client.py 17-19
aenter ==
    /\ client._session = None
    /\ ClientMoves([client EXCEPT !._session = "open"])

\* api_client.py 21-23: the session is closed, the attribute keeps it
aexit ==
    /\ client._session = "open"
    /\ ClientMoves([client EXCEPT !._session = "closed"])

\* a task calls fetch
fetch(t, method) ==
    /\ client.tasks[t].pc = "idle"
    /\ ClientMoves([client EXCEPT !.tasks[t] =
                       [pc |-> "called", method |-> method, exc |-> None]])

\* fetch leaves with exc; permits is the semaphore's value after the exit
Exits(t, exc, permits) ==
    ClientMoves([client EXCEPT !.tasks[t].pc = "raised", !.tasks[t].exc = exc,
                               !._semaphore = permits])

\* api_client.py 37-38
RaiseRuntimeError(t) ==
    /\ client.tasks[t].pc = "called"
    /\ client._session = None
    /\ Exits(t, "RuntimeError", client._semaphore)

\* api_client.py 42-44
RaiseValueError(t) ==
    /\ client.tasks[t].pc = "called"
    /\ client._session # None
    /\ client.tasks[t].method \notin SessionMethods
    /\ Exits(t, "ValueError", client._semaphore)

\* api_client.py 46, with a permit left: the task goes on to the request
\* without giving up the loop
AcquireAtOnce(t) ==
    /\ client.tasks[t].pc = "called"
    /\ client._session # None
    /\ client.tasks[t].method \in SessionMethods
    /\ ~locked(client._semaphore)
    /\ ClientMoves([client EXCEPT !.tasks[t].pc = "request",
                                  !._semaphore = acquire(@)])

\* api_client.py 46, with no permit left: the task waits
WaitForPermit(t) ==
    /\ client.tasks[t].pc = "called"
    /\ client._session # None
    /\ client.tasks[t].method \in SessionMethods
    /\ locked(client._semaphore)
    /\ ClientMoves([client EXCEPT !.tasks[t].pc = "waiting"])

\* api_client.py 46: a waiting task is given a permit
AcquireAfterWait(t) ==
    /\ client.tasks[t].pc = "waiting"
    /\ ~locked(client._semaphore)
    /\ ClientMoves([client EXCEPT !.tasks[t].pc = "request",
                                  !._semaphore = acquire(@)])

\* api_client.py 48, 53: status 200, the body is returned
Return200(t) ==
    /\ client.tasks[t].pc = "request"
    /\ ClientMoves([client EXCEPT !.tasks[t].pc = "returned",
                                  !._semaphore = release(@)])

\* api_client.py 49-52: another status
RaiseNon200(t) ==
    /\ client.tasks[t].pc = "request"
    /\ Exits(t, "FetchError(status)", release(client._semaphore))

\* api_client.py 55-58: aiohttp.ClientError in the request or in reading
\* the response
RaiseClientError(t) ==
    /\ client.tasks[t].pc = "request"
    /\ Exits(t, "FetchError(client)", release(client._semaphore))

\* api_client.py 46-53: an exception that is not a ClientError (a closed
\* session, a body that is not JSON, a cancelled task) leaves through the
\* semaphore's context manager as it is
RaiseOther(t) ==
    /\ client.tasks[t].pc = "request"
    /\ Exits(t, "Exception", release(client._semaphore))

ClientNext ==
    \/ aenter
    \/ aexit
    \/ \E t \in FetchTasks :
           \/ \E method \in Methods : fetch(t, method)
           \/ RaiseRuntimeError(t)
           \/ RaiseValueError(t)
           \/ AcquireAtOnce(t)
           \/ WaitForPermit(t)
           \/ AcquireAfterWait(t)
           \/ Return200(t)
           \/ RaiseNon200(t)
           \/ RaiseClientError(t)
           \/ RaiseOther(t)

ClientSpec == ClientInit /\ [][ClientNext]_vars

----------------------------------------------------------------------------
(* C28 *)

\* the tasks whose request is in flight
InFlight == {t \in FetchTasks : client.tasks[t].pc = "request"}

\* the tasks inside fetch
Fetching == {t \in FetchTasks : client.tasks[t].pc \in {"called", "waiting", "request"}}

\* C28: with max_concurrent_requests = N, at most N requests are in flight
\* at any time, and every exit of fetch gives its permit back: the permits
\* left and the requests in flight add up to N, so all N permits are there
\* whenever no fetch is running.
C28_PermitsBounded ==
    /\ Cardinality(InFlight) <= client.max_concurrent_requests
    /\ client._semaphore + Cardinality(InFlight) = client.max_concurrent_requests
    /\ Fetching = {} => client._semaphore = client.max_concurrent_requests

\* N requests in flight and no permit left, a further task waiting, and a
\* task that has left fetch with a FetchError
C28_Witness ==
    /\ Cardinality(InFlight) = client.max_concurrent_requests
    /\ locked(client._semaphore)
    /\ \E t \in FetchTasks : client.tasks[t].pc = "waiting"
    /\ \E t \in FetchTasks :
           client.tasks[t].exc \in {"FetchError(status)", "FetchError(client)"}

----------------------------------------------------------------------------
(* C29 *)

\* no two stored membership rows have the same (workspace_id, user_id)
OneRowPerPair ==
    \A i, j \in DOMAIN auth.db.members :
        KeyOf(auth.db.members[i]) = KeyOf(auth.db.members[j]) => i = j

\* the add calls that have failed while the user is a stored member of the
\* workspace
RefusedMembers ==
    {s \in Sessions :
        /\ auth.calls[s].op = "add" /\ auth.calls[s].pc = "raised"
        /\ auth.calls[s].exc \notin {"404 User not found.",
                                     "404 Workspace not found or access denied."}
        /\ IsMember(auth.db, auth.calls[s].workspace_id, auth.calls[s].add_user_id)}

\* C29: add_user_to_workspace never produces two membership rows for the
\* same (workspace, user) pair, and a call for a user who is already a
\* member fails with the 409 conflict, also when two calls for the same pair
\* are interleaved on separate sessions.
C29_OneMembershipOr409 ==
    /\ OneRowPerPair
    /\ \A s \in RefusedMembers :
           auth.calls[s].exc = "409 User is already a member of this workspace."

----------------------------------------------------------------------------
(* CacheManager (core/redis_client.py): the module's one cache_manager and
   concurrent calls of its methods on one event loop.  Clients are numbered
   in the order in which from_url makes them; 0 stands for None.  close is
   called with no other call in progress. *)

\* concurrent calls of the cache manager's methods
MaxCacheCalls == 2
\* calls of close in one run
MaxCloses == 2

CacheTasks == 1..MaxCacheCalls
CacheMethods ==
    {"save_to_cache", "get_from_cache", "clear_cache", "exists", "set_ttl",
     "get_all_keys"}

NoClient == 0
NoCacheCall == [pc |-> "idle", op |-> None, client |-> NoClient]

\* redis_client.py 7-9
CacheInit ==
    /\ NoBulkUpdate /\ NoTable /\ NoSearch
    /\ auth = <<>> /\ client = <<>>
    /\ cache = [_redis_client |-> NoClient, made |-> 0, closed |-> 0, closes |-> 0,
                tasks |-> [t \in CacheTasks |-> NoCacheCall]]

\* the cache manager moves to c
CacheMoves(c) ==
    /\ cache' = c
    /\ UNCHANGED <<inputs, run, twin, arith, finder, auth, client>>

\* redis_client.py 24, 35, 46, 57, 65, 73: a method is called and calls
\* _get_redis_client
CallCache(t, op) ==
    /\ cache.tasks[t].pc \in {"idle", "returned"}
    /\ CacheMoves([cache EXCEPT !.tasks[t] =
                      [pc |-> "_get_redis_client", op |-> op, client |-> NoClient]])

\* redis_client.py 13, 19: a client is set and is returned
ClientAtHand(t) ==
    /\ cache.tasks[t].pc = "_get_redis_client"
    /\ cache._redis_client # NoClient
    /\ CacheMoves([cache EXCEPT !.tasks[t].pc = "command",
                                !.tasks[t].client = cache._redis_client])

\* redis_client.py 13-19: no client is set, from_url makes one, and the
\* awaited client is ready without the task giving up the loop
ClientMadeAtOnce(t) ==
    /\ cache.tasks[t].pc = "_get_redis_client"
    /\ cache._redis_client = NoClient
    /\ CacheMoves([cache EXCEPT !.made = @ + 1, !._redis_client = cache.made + 1,
                                !.tasks[t].pc = "command",
                                !.tasks[t].client = cache.made + 1])

\* redis_client.py 13-14: no client is set, from_url makes one, and the
\* task is suspended in the await before the assignment
ClientAwaited(t) ==
    /\ cache.tasks[t].pc = "_get_redis_client"
    /\ cache._redis_client = NoClient
    /\ CacheMoves([cache EXCEPT !.made = @ + 1, !.tasks[t].pc = "from_url",
                                !.tasks[t].client = cache.made + 1])

\* redis_client.py 14, 19: the task resumes, assigns the client it awaited
\* and returns the attribute
ClientAssigned(t) ==
    /\ cache.tasks[t].pc = "from_url"
    /\ CacheMoves([cache EXCEPT !._redis_client = cache.tasks[t].client,
                                !.tasks[t].pc = "command"])

\* redis_client.py 26, 36, 47, 58, 66, 74: the command on the client ends
\* and the method returns
CommandDone(t) ==
    /\ cache.tasks[t].pc = "command"
    /\ CacheMoves([cache EXCEPT !.tasks[t].pc = "returned"])

\* redis_client.py 78-82, with no other call in progress
close ==
    /\ cache.closes < MaxCloses
    /\ \A t \in CacheTasks : cache.tasks[t].pc \in {"idle", "returned"}
    /\ CacheMoves([cache EXCEPT !._redis_client = NoClient, !.closed = cache.made,
                                !.closes = @ + 1,
                                !.tasks = [t \in CacheTasks |-> NoCacheCall]])

CacheNext ==
    \/ close
    \/ \E t \in CacheTasks :
           \/ \E op \in CacheMethods : CallCache(t, op)
           \/ ClientAtHand(t)
           \/ ClientMadeAtOnce(t)
           \/ ClientAwaited(t)
           \/ ClientAssigned(t)
           \/ CommandDone(t)

CacheSpec == CacheInit /\ [][CacheNext]_vars

----------------------------------------------------------------------------
(* C30 *)

\* the calls since the last close that have got their client
Served == {t \in CacheTasks : cache.tasks[t].pc \in {"command", "returned"}}

====
